---------------------------- MODULE Spec2Model ----------------------------
(***************************************************************************)
(* LinkLoom sync core: the per-user event log and client cursors           *)
(* (app/api/routes.py sync_push / sync_pull / sync_ack), the push merge    *)
(* rules (app/services/sync.py), the folder-tree reconciler                *)
(* (app/api/routes.py _ensure_server_folders_from_local) and the first     *)
(* sync of a device (sync_first_preflight / sync_first_apply with its      *)
(* confirmation token and its three modes), the background jobs           *)
(* (app/services/dead_link_jobs.py, app/services/import_jobs.py and their  *)
(* web routes) and pushes and pulls served at once (SpecConcurrent).       *)
(*                                                                         *)
(* Conventions.  Python None is modelled by NoId (0) for ids, NoTime (0)   *)
(* for timestamps, NoNotes ("") for notes, NoTitle ("") for titles and     *)
(* NoStatus ("") for link statuses; a key that is absent from a JSON       *)
(* object is absent from the DOMAIN of the record that models it; a list   *)
(* of tags is the set of its names.                                        *)
(* Ids follow SQLite's INTEGER PRIMARY KEY rule (largest id in the table   *)
(* plus one).  Wall-clock time is the counter `now`; every operation that  *)
(* writes a row reads a later clock value than any operation before it.    *)
(* Pushed operations carry no "title" and no "tags" key.  Requests are     *)
(* served one at a time, except in SpecJobs, where the threads of a job    *)
(* and the requests that stop or delete it interleave, and in              *)
(* SpecConcurrent; a request that raises leaves no row changed.            *)
(***************************************************************************)
EXTENDS Integers, Sequences, FiniteSets, TLC

\* ------------------------------------------------------------------ bounds
MaxTime == 3        \* row-writing operations per behaviour (clock values 1..MaxTime)
MaxFolders == 2     \* folder rows alive at once
MaxBookmarks == 2   \* bookmark rows
MaxLimit == 2       \* largest `limit` a pull is called with
MaxCursor == 3      \* largest `since` / ack cursor a client sends
MaxOps == 2         \* operations in one push of the protocol specification

NoId == 0
NoTime == 0
NoNotes == ""
NoTitle == ""
NoStatus == ""

Users == {1, 2}

\* ------------------------------------------------------------- small tools
Max(S) == CHOOSE x \in S : \A y \in S : y <= x
Min(S) == CHOOSE x \in S : \A y \in S : x <= y
Range(s) == {s[i] : i \in DOMAIN s}
Has(r, k) == k \in DOMAIN r
Get(r, k, default) == IF k \in DOMAIN r THEN r[k] ELSE default

RECURSIVE SortedQuery(_)
SortedQuery(s) ==
  IF s = <<>> THEN <<>>
  ELSE LET m == Min(Range(s))
           i == CHOOSE j \in DOMAIN s : s[j] = m
           rest == [k \in 1..(Len(s) - 1) |-> IF k < i THEN s[k] ELSE s[k + 1]]
       IN <<m>> \o SortedQuery(rest)

\* --------------------------------------------------------------------- URLs
\* A raw URL is what urlparse splits it into; query parameters are numbered
\* so that sorted() has an order to sort by.  EmptyUrl is the empty string.
Url(s, h, p, q, f) == [scheme |-> s, host |-> h, path |-> p, query |-> q, fragment |-> f]
EmptyUrl == Url("", "", "", <<>>, "")
UrlA1 == Url("http", "a.example", "", <<>>, "")
UrlA2 == Url("HTTP", "A.Example", "/", <<>>, "top")
UrlB1 == Url("", "b.example", "/p", <<2, 1>>, "")
UrlB2 == Url("https", "b.example", "/p", <<1, 2>>, "")
RawUrls == {EmptyUrl, UrlA1, UrlA2, UrlB1, UrlB2}

Lower(s) ==
  CASE s = "HTTP" -> "http"
    [] s = "A.Example" -> "a.example"
    [] s = "Two_Way_Merge" -> "two_way_merge"
    [] s = "News" -> "news"
    [] s = "Yes" -> "yes"
    [] OTHER -> s

normalize_url(url) ==
  IF url = EmptyUrl THEN EmptyUrl
  ELSE Url(IF url.scheme = "" THEN "https" ELSE Lower(url.scheme),
           Lower(url.host),
           IF url.path = "" THEN "/" ELSE url.path,
           SortedQuery(url.query),
           "")

\* -------------------------------------------------------------------- state
VARIABLES
  folders,    \* Folder rows: id -> [user_id, name, parent_id, updated_at]
  bookmarks,  \* Bookmark rows: id -> [user_id, url, normalized_url, notes,
              \*                       folder_id, deleted_at, deleted_by, updated_at,
              \*                       title, tags, link_status]
  events,     \* SyncEvent rows in id order; events[i].id = i
  clients,    \* SyncClient rows: <<user_id, client_id>> -> last_cursor
  now,        \* the clock
  last,       \* the last request: its inputs, its response, the rows before it
  device,     \* the device of the end-to-end run: its position and what it holds
  dead_link_jobs,   \* DeadLinkJob rows: id -> [user_id, status, progress, total_targets,
                    \*                          total_checked, total_alive,
                    \*                          total_problematic, total_errors, error_message]
  import_jobs,      \* ImportJob rows: id -> [user_id, status, progress, total_created,
                    \*                        total_skipped, error_message]
  _STOP_REQUESTED,  \* dead_link_jobs.py: the ids of the jobs asked to stop
  _RUNTIME_STATE,   \* the in-memory snapshots, one map of each module:
                    \* [dead_link |-> id -> snapshot, import |-> id -> snapshot]
  coordinator,      \* the thread of _run_dead_link_job: its position and its locals
  importer,         \* the thread of _run_import_job: its position and its locals
  stop_request,     \* the stop request in service and what stop requests returned
  transactions      \* the write transaction each server thread has open

jobvars ==
  <<dead_link_jobs, import_jobs, _STOP_REQUESTED, _RUNTIME_STATE, coordinator, importer, stop_request>>

vars == <<folders, bookmarks, events, clients, now, last, device, jobvars, transactions>>

Db == [folders |-> folders, bookmarks |-> bookmarks, events |-> events, now |-> now]

\* The rows of one request's database session.  `loaded` is the set of bookmark
\* ids whose `tags` collection the session has already loaded; `raised` is set
\* once the handler has raised (the request then ends in a rollback).
Session(db) == db @@ [loaded |-> {}, raised |-> FALSE]

\* ------------------------------------------------------------ serialization
serialize_folder_for_sync(id, row) ==
  [id |-> id, name |-> row.name, parent_id |-> row.parent_id, updated_at |-> row.updated_at]

serialize_bookmark_for_sync(id, row) ==
  [id |-> id, url |-> row.url, title |-> row.title, notes |-> row.notes,
   folder_id |-> row.folder_id, tags |-> row.tags,
   updated_at |-> row.updated_at, deleted_at |-> row.deleted_at]

log_sync_event(s, user_id, entity_type, entity_id, action, payload) ==
  [s EXCEPT !.events = Append(@, [id |-> Len(@) + 1, user_id |-> user_id,
                                  entity_type |-> entity_type, entity_id |-> entity_id,
                                  action |-> action, payload |-> payload])]

\* ------------------------------------------------------- client timestamps
\* A client timestamp is an ISO string: with a UTC offset ("aware"), without
\* one ("naive"), or unparsable ("bad").  A missing key is NoStamp.
Stamp(t, tz) == [t |-> t, tz |-> tz]
NoStamp == Stamp(NoTime, "none")

\* None (NoStamp) for a missing, empty or unparsable value, else the instant.
_parse_client_time(value) ==
  IF value = NoStamp \/ value.tz = "bad" THEN NoStamp ELSE value

\* A faulty variant: strictly newer only
_server_time_is_newer(server_time, client_time) ==
  IF server_time = NoTime \/ client_time = NoStamp THEN "false"
  ELSE IF client_time.tz = "naive" THEN "TypeError"
  ELSE IF server_time > client_time.t THEN "true" ELSE "false"

\* "TypeError" is datetime's refusal to compare an aware with a naive value.
_server_time_is_newer_or_equal(server_time, client_time) ==
  IF server_time = NoTime \/ client_time = NoStamp THEN "false"
  ELSE IF client_time.tz = "naive" THEN "TypeError"
  ELSE IF server_time >= client_time.t THEN "true" ELSE "false"

_normalize_notes_value(value) ==
  IF value \in {"", " ", "none"} THEN NoNotes ELSE value

\* ------------------------------------------------------------- ORM helpers
FolderOf(s, id, user) ==
  id # NoId /\ id \in DOMAIN s.folders /\ s.folders[id].user_id = user

BookmarkOf(s, id, user) ==
  id # NoId /\ id \in DOMAIN s.bookmarks /\ s.bookmarks[id].user_id = user

NextId(table) == IF DOMAIN table = {} THEN 1 ELSE Max(DOMAIN table) + 1

\* Folder.query.filter_by(user_id, name, parent_id): the matching ids
FoldersNamed(s, user, name, parent_id) ==
  {f \in DOMAIN s.folders : /\ s.folders[f].user_id = user
                            /\ s.folders[f].name = name
                            /\ s.folders[f].parent_id = parent_id}

\* .first() on a query with no ORDER BY: SQLite answers in rowid order
First(ids) == Min(ids)

\* A set of ids as the ascending sequence of its members
RECURSIVE Ascending(_)
Ascending(ids) ==
  IF ids = {} THEN <<>> ELSE <<Min(ids)>> \o Ascending(ids \ {Min(ids)})

\* Whether the parent links from `at` lead to `goal` within `fuel` steps
RECURSIVE Climbs(_, _, _, _)
Climbs(table, at, goal, fuel) ==
  IF at = NoId \/ at \notin DOMAIN table \/ fuel = 0 THEN FALSE
  ELSE table[at].parent_id = goal \/ Climbs(table, table[at].parent_id, goal, fuel - 1)

OwnAncestor(table, f) == Climbs(table, f, f, Cardinality(DOMAIN table))

Acyclic(table) == \A f \in DOMAIN table : ~OwnAncestor(table, f)

\* A bookmark row the session has modified, as the next flush writes it: the
\* UPDATE (and with it onupdate=utcnow) is emitted only for a net change.
Flushed(old, new, t) ==
  IF new = old THEN old ELSE [new EXCEPT !.updated_at = t]

\* Modify a bookmark row and log the event.  serialize_bookmark_for_sync reads
\* bookmark.tags before bookmark.updated_at: unless the collection is already
\* loaded, that lazy load autoflushes and the payload carries the new updated_at.
StoreBookmark(s, user, id, new, action, t) ==
  LET old == s.bookmarks[id]
      row == Flushed(old, new, t)
      seen == IF id \in s.loaded THEN new ELSE row
      s1 == [s EXCEPT !.bookmarks[id] = row, !.loaded = @ \cup {id}, !.now = t]
  IN log_sync_event(s1, user, "bookmark", id, action, serialize_bookmark_for_sync(id, seen))

\* ------------------------------------------------------ folder push merge
Result(status, reason, id) == [status |-> status, reason |-> reason, id |-> id]
Outcome(s, result) == [s |-> s, result |-> result]
Raise(s) == Outcome([s EXCEPT !.raised = TRUE], Result("error", "exception", NoId))

RECURSIVE ClearFolderBookmarks(_, _, _, _)
ClearFolderBookmarks(s, user, ids, t) ==
  IF ids = <<>> THEN s
  ELSE LET b == Head(ids)
           s1 == StoreBookmark(s, user, b, [s.bookmarks[b] EXCEPT !.folder_id = NoId],
                               "update", t)
       IN ClearFolderBookmarks(s1, user, Tail(ids), t)

\* `path` is the chain of calls in progress: meeting a folder of the chain again
\* is the unbounded recursion of a parent cycle, which ends in RecursionError.
RECURSIVE _delete_folder_tree_for_sync(_, _, _, _, _)
RECURSIVE DeleteChildren(_, _, _, _, _)
_delete_folder_tree_for_sync(s, user, folder, path, t) ==
  IF folder \in path THEN [s EXCEPT !.raised = TRUE]
  ELSE
    LET children == Ascending({c \in DOMAIN s.folders : s.folders[c].parent_id = folder})
        s1 == DeleteChildren(s, user, children, path \cup {folder}, t)
        inside == Ascending({b \in DOMAIN s1.bookmarks : s1.bookmarks[b].folder_id = folder})
        s2 == ClearFolderBookmarks(s1, user, inside, t)
        s3 == log_sync_event(s2, user, "folder", folder, "delete",
                             serialize_folder_for_sync(folder, s2.folders[folder]))
    IN IF s1.raised THEN s1
       ELSE [s3 EXCEPT !.folders = [f \in DOMAIN @ \ {folder} |-> @[f]], !.now = t]

DeleteChildren(s, user, children, path, t) ==
  IF children = <<>> \/ s.raised THEN s
  ELSE DeleteChildren(_delete_folder_tree_for_sync(s, user, Head(children), path, t),
                      user, Tail(children), path, t)

FolderNameOf(data) ==
  IF Get(data, "name", "") \in {"", " "} THEN "Untitled Folder" ELSE data.name

_apply_folder_push_operation(s, user, op) ==
  LET action == op.op
      folder_data == op.data
      folder_id == Get(folder_data, "id", NoId)
      client_updated_at == _parse_client_time(Get(folder_data, "updated_at", NoStamp))
      found == FolderOf(s, folder_id, user)
      t == s.now + 1
  IN
  IF action = "create" THEN
    LET name == FolderNameOf(folder_data)
        asked == Get(folder_data, "parent_id", NoId)
        parent_id == IF asked # NoId /\ ~FolderOf(s, asked, user) THEN NoId ELSE asked
        existing == FoldersNamed(s, user, name, parent_id)
        id == NextId(s.folders)
        row == [user_id |-> user, name |-> name, parent_id |-> parent_id, updated_at |-> t]
        s1 == [s EXCEPT !.folders = @ @@ (id :> row), !.now = t]
    IN IF existing # {} THEN Outcome(s, Result("exists", "", First(existing)))
       ELSE Outcome(log_sync_event(s1, user, "folder", id, "create",
                                   serialize_folder_for_sync(id, row)),
                    Result("created", "", id))
  ELSE IF ~found THEN Outcome(s, Result("skipped", "folder_not_found", NoId))
  ELSE
    LET folder == s.folders[folder_id]
        newer == _server_time_is_newer_or_equal(folder.updated_at, client_updated_at)
    IN
    IF newer = "TypeError" THEN Raise(s)
    ELSE IF newer = "true" THEN Outcome(s, Result("skipped", "server_newer_or_equal", NoId))
    ELSE IF action \in {"update", "move"} THEN
      LET name == IF Has(folder_data, "name") THEN FolderNameOf(folder_data) ELSE folder.name
          asked == Get(folder_data, "parent_id", NoId)
          unselfed == IF asked = folder_id THEN NoId ELSE asked
          \* the parent lookup is a query: it autoflushes a pending rename
          queried == Has(folder_data, "parent_id") /\ unselfed # NoId
          new_parent_id == IF ~Has(folder_data, "parent_id") THEN folder.parent_id
                           ELSE IF unselfed # NoId /\ ~FolderOf(s, unselfed, user) THEN NoId
                           ELSE unselfed
          changed == name # folder.name \/ new_parent_id # folder.parent_id
          row == [folder EXCEPT !.name = name, !.parent_id = new_parent_id, !.updated_at = t]
          \* serialize_folder_for_sync runs before the flush that applies onupdate
          seen == [row EXCEPT !.updated_at =
                     IF name # folder.name /\ queried THEN t ELSE folder.updated_at]
          s1 == [s EXCEPT !.folders[folder_id] = row, !.now = t]
      IN IF changed
         THEN Outcome(log_sync_event(s1, user, "folder", folder_id, "update",
                                     serialize_folder_for_sync(folder_id, seen)),
                      Result("updated", "", folder_id))
         ELSE Outcome(s, Result("skipped", "no_changes", NoId))
    ELSE IF action = "delete" THEN
      LET s1 == _delete_folder_tree_for_sync(s, user, folder_id, {}, t)
      IN IF s1.raised THEN Raise(s) ELSE Outcome(s1, Result("deleted", "", folder_id))
    ELSE Outcome(s, Result("skipped", "unsupported_operation", NoId))

\* ---------------------------------------------------- bookmark push merge
\* A faulty variant: the lookup by the stored url, not the normalized one
BookmarksAtRawUrl(s, user, normalized_url, deleted) ==
  {b \in DOMAIN s.bookmarks : /\ s.bookmarks[b].user_id = user
                              /\ s.bookmarks[b].url = normalized_url
                              /\ (s.bookmarks[b].deleted_at # NoTime) = deleted}

\* Bookmark.query.filter_by(user_id, normalized_url), active or soft-deleted
BookmarksAt(s, user, normalized_url, deleted) ==
  {b \in DOMAIN s.bookmarks : /\ s.bookmarks[b].user_id = user
                              /\ s.bookmarks[b].normalized_url = normalized_url
                              /\ (s.bookmarks[b].deleted_at # NoTime) = deleted}

\* .order_by(Bookmark.updated_at.desc()).first()
LatestUpdated(s, ids) ==
  First({b \in ids : \A c \in ids : s.bookmarks[c].updated_at <= s.bookmarks[b].updated_at})

_apply_bookmark_push_operation(s, user, op) ==
  LET action == op.op
      bookmark_data == op.data
      bookmark_id == Get(bookmark_data, "id", NoId)
      client_updated_at == _parse_client_time(Get(bookmark_data, "updated_at", NoStamp))
      found == BookmarkOf(s, bookmark_id, user)
      t == s.now + 1
  IN
  IF action = "create" THEN
    LET raw_url == Get(bookmark_data, "url", EmptyUrl)
        normalized_url == normalize_url(raw_url)
        existing_active == BookmarksAt(s, user, normalized_url, FALSE)
        existing_deleted == BookmarksAt(s, user, normalized_url, TRUE)
        incoming_notes == _normalize_notes_value(Get(bookmark_data, "notes", ""))
    IN
    IF normalized_url = EmptyUrl THEN Outcome(s, Result("skipped", "invalid_url", NoId))
    ELSE IF existing_active # {}
      THEN Outcome(s, Result("exists", "", First(existing_active)))
    ELSE IF existing_deleted # {} THEN
      LET id == LatestUpdated(s, existing_deleted)
          old == s.bookmarks[id]
          new == [old EXCEPT !.deleted_at = NoTime, !.deleted_by = NoId,
                             !.url = raw_url, !.normalized_url = normalized_url,
                             !.notes = IF incoming_notes # NoNotes THEN incoming_notes ELSE @,
                             !.folder_id = Get(bookmark_data, "folder_id", @)]
      IN Outcome(StoreBookmark(s, user, id, new, "restore", t), Result("restored", "", id))
    ELSE
      LET id == NextId(s.bookmarks)
          row == [user_id |-> user, url |-> raw_url, normalized_url |-> normalized_url,
                  notes |-> incoming_notes, folder_id |-> Get(bookmark_data, "folder_id", NoId),
                  deleted_at |-> NoTime, deleted_by |-> NoId, updated_at |-> t,
                  title |-> NoTitle, tags |-> {}, link_status |-> NoStatus]
          s1 == [s EXCEPT !.bookmarks = @ @@ (id :> row), !.loaded = @ \cup {id}, !.now = t]
      IN Outcome(log_sync_event(s1, user, "bookmark", id, "create",
                                serialize_bookmark_for_sync(id, row)),
                 Result("created", "", id))
  ELSE IF ~found THEN Outcome(s, Result("skipped", "bookmark_not_found", NoId))
  ELSE
    LET bookmark == s.bookmarks[bookmark_id]
        newer == _server_time_is_newer_or_equal(bookmark.updated_at, client_updated_at)
    IN
    IF newer = "TypeError" THEN Raise(s)
    ELSE IF newer = "true" THEN Outcome(s, Result("skipped", "server_newer_or_equal", NoId))
    ELSE IF action = "update" THEN
      LET url == IF Get(bookmark_data, "url", EmptyUrl) # EmptyUrl
                 THEN bookmark_data.url ELSE bookmark.url
          incoming_notes == _normalize_notes_value(Get(bookmark_data, "notes", ""))
          new == [bookmark EXCEPT
                    !.url = url,
                    !.normalized_url = IF Has(bookmark_data, "url") THEN normalize_url(url) ELSE @,
                    !.folder_id = Get(bookmark_data, "folder_id", @),
                    !.notes = IF incoming_notes # NoNotes THEN incoming_notes ELSE @,
                    !.deleted_at = NoTime, !.deleted_by = NoId]
      IN Outcome(StoreBookmark(s, user, bookmark_id, new, "update", t),
                 Result("updated", "", bookmark_id))
    ELSE IF action = "delete" THEN
      LET new == [bookmark EXCEPT !.deleted_at = t, !.deleted_by = user]
      IN Outcome(StoreBookmark(s, user, bookmark_id, new, "delete", t),
                 Result("deleted", "", bookmark_id))
    ELSE IF action = "restore" THEN
      LET new == [bookmark EXCEPT !.deleted_at = NoTime, !.deleted_by = NoId]
      IN Outcome(StoreBookmark(s, user, bookmark_id, new, "restore", t),
                 Result("restored", "", bookmark_id))
    ELSE Outcome(s, Result("skipped", "unsupported_operation", NoId))

apply_push_operation(s, user, op) ==
  IF op.entity_type = "folder" THEN _apply_folder_push_operation(s, user, op)
  ELSE _apply_bookmark_push_operation(s, user, op)

\* uq_folder_user_name_parent, as SQLite enforces it: rows with a NULL parent_id
\* never conflict.  The INSERT or UPDATE that breaks it raises IntegrityError.
UniqueViolation(s) ==
  \E f, g \in DOMAIN s.folders :
    /\ f # g
    /\ s.folders[f].parent_id # NoId
    /\ s.folders[f].user_id = s.folders[g].user_id
    /\ s.folders[f].name = s.folders[g].name
    /\ s.folders[f].parent_id = s.folders[g].parent_id

\* The loop of sync_push: the operations in order in one session; `results` is
\* the response list.  An exception leaves the loop with the session as it was
\* when it was raised.
RECURSIVE ApplyOperations(_, _, _, _)
ApplyOperations(s, user, operations, results) ==
  IF operations = <<>> \/ s.raised THEN [s |-> s, results |-> results]
  ELSE LET out == apply_push_operation(s, user, Head(operations))
           s1 == IF UniqueViolation(out.s) THEN [out.s EXCEPT !.raised = TRUE] ELSE out.s
       IN ApplyOperations(s1, user, Tail(operations), Append(results, out.result))

\* ----------------------------------------------------------------- handlers
Rows == [folders |-> folders, bookmarks |-> bookmarks, events |-> events, clients |-> clients]

\* ensure_sync_client: the row, created with last_cursor 0 on first contact
ensure_sync_client(table, user, client_id) ==
  IF <<user, client_id>> \in DOMAIN table THEN table ELSE table @@ (<<user, client_id>> :> 0)

\* db.func.max(SyncEvent.id) filtered by user, or 0
LatestCursor(log, user) ==
  LET mine == {i \in DOMAIN log : log[i].user_id = user}
  IN IF mine = {} THEN 0 ELSE Max(mine)

sync_register_client(user, client_id) ==
  /\ clients' = ensure_sync_client(clients, user, client_id)
  /\ last' = [kind |-> "register", user |-> user, client_id |-> client_id, pre |-> Rows,
              last_cursor |-> clients'[<<user, client_id>>]]
  /\ UNCHANGED <<folders, bookmarks, events, now>>

\* A faulty variant: the cursor assigned, not the maximum
AdvanceCursorAssign(last_cursor, latest_cursor) == latest_cursor

\* client.last_cursor = max(client.last_cursor, latest_cursor)
AdvanceCursor(last_cursor, latest_cursor) ==
  IF last_cursor >= latest_cursor THEN last_cursor ELSE latest_cursor

\* The end of sync_push: the commit, the cursor and the response; after an
\* exception only the client row that ensure_sync_client committed remains.
PushCommit(user, client_id, operations, registered, s, results, latest_cursor) ==
  /\ s.now <= MaxTime
  /\ DOMAIN s.folders \subseteq 1..MaxFolders
  /\ DOMAIN s.bookmarks \subseteq 1..MaxBookmarks
  /\ IF s.raised
     THEN /\ clients' = registered
          /\ last' = [kind |-> "push", user |-> user, client_id |-> client_id,
                      operations |-> operations, pre |-> Rows, status |-> "error",
                      results |-> <<>>, cursor |-> 0]
          /\ UNCHANGED <<folders, bookmarks, events, now>>
     ELSE /\ folders' = s.folders
          /\ bookmarks' = s.bookmarks
          /\ events' = s.events
          /\ now' = s.now
          /\ clients' = [registered EXCEPT ![<<user, client_id>>] =
                           AdvanceCursor(@, latest_cursor)]
          /\ last' = [kind |-> "push", user |-> user, client_id |-> client_id,
                      operations |-> operations, pre |-> Rows, status |-> "ok",
                      results |-> results, cursor |-> latest_cursor]

PushApplied(user, client_id, operations, done) ==
  PushCommit(user, client_id, operations, ensure_sync_client(clients, user, client_id),
             done.s, done.results, LatestCursor(done.s.events, user))

sync_push(user, client_id, operations) ==
  PushApplied(user, client_id, operations,
              ApplyOperations(Session(Db), user, operations, <<>>))

\* A faulty variant: id >= since
PullQueryFromSince(log, user, since, limit) ==
  LET matching == SelectSeq(log, LAMBDA e : e.user_id = user /\ e.id >= since)
  IN IF limit < 0 \/ Len(matching) <= limit THEN matching ELSE SubSeq(matching, 1, limit)

\* .filter(id > since).order_by(id.asc()).limit(limit).all(); SQLite reads a
\* negative LIMIT as no limit.
PullQuery(log, user, since, limit) ==
  LET matching == SelectSeq(log, LAMBDA e : e.user_id = user /\ e.id > since)
  IN IF limit < 0 \/ Len(matching) <= limit THEN matching ELSE SubSeq(matching, 1, limit)

sync_pull(user, since, limit) ==
  LET found == PullQuery(events, user, since, limit)
      latest_cursor == IF found # <<>> THEN found[Len(found)].id ELSE since
  IN
  /\ last' = [kind |-> "pull", user |-> user, since |-> since, limit |-> limit, pre |-> Rows,
              events |-> found, cursor |-> latest_cursor, has_more |-> (Len(found) = limit)]
  /\ UNCHANGED <<folders, bookmarks, events, clients, now>>

sync_ack(user, client_id, cursor) ==
  /\ clients' = [ensure_sync_client(clients, user, client_id) EXCEPT ![<<user, client_id>>] = cursor]
  /\ last' = [kind |-> "ack", user |-> user, client_id |-> client_id, cursor |-> cursor,
              pre |-> Rows]
  /\ UNCHANGED <<folders, bookmarks, events, now>>

\* ------------------------------------------------- folder reconciliation
\* A local id is a string; NoLocal is None, a missing key or an empty string.
NoLocal == ""

\* str(value).strip() over the strings of the model
Strip(text) ==
  CASE text = " " -> ""
    [] text = " 2" -> "2"
    [] text = " Two_Way_Merge " -> "Two_Way_Merge"
    [] text = " SYNC BOOKMARKS BOTH WAYS " -> "SYNC BOOKMARKS BOTH WAYS"
    [] text = " news" -> "news"
    [] OTHER -> text

RECURSIVE ParseFolders(_, _, _)
ParseFolders(rows, seen_ids, parsed) ==
  IF rows = <<>> THEN parsed
  ELSE LET item == Head(rows)
           local_id == Strip(item.id)
           stripped == Strip(item.parent_id)
           parent_id == IF stripped = local_id THEN NoLocal ELSE stripped
           title == IF Strip(item.title) = "" THEN "Untitled Folder" ELSE Strip(item.title)
       IN IF local_id = NoLocal \/ local_id \in seen_ids
          THEN ParseFolders(Tail(rows), seen_ids, parsed)
          ELSE ParseFolders(Tail(rows), seen_ids \cup {local_id},
                            Append(parsed, [id |-> local_id, parent_id |-> parent_id,
                                            title |-> title]))

_parse_local_folders(rows) == ParseFolders(rows, {}, <<>>)

Put(map, key, value) == [k \in DOMAIN map \cup {key} |-> IF k = key THEN value ELSE map[k]]

\* Folder.query.filter_by(user_id, name, parent_id).first(), or a new Folder,
\* flushed and logged: the session and the folder's id
Found(s, id) == [s |-> s, id |-> id]

NewFolder(s, user_id, id, row) ==
  Found(log_sync_event([s EXCEPT !.folders = @ @@ (id :> row), !.now = row.updated_at],
                       user_id, "folder", id, "create", serialize_folder_for_sync(id, row)),
        id)

FindOrCreate(s, user_id, name, parent_id) ==
  IF FoldersNamed(s, user_id, name, parent_id) # {}
  THEN Found(s, First(FoldersNamed(s, user_id, name, parent_id)))
  ELSE NewFolder(s, user_id, NextId(s.folders),
                 [user_id |-> user_id, name |-> name, parent_id |-> parent_id,
                  updated_at |-> s.now + 1])

\* The reconciliation in progress: the session, the pending rows in the
\* order of the dict, the mapping and the cache.
Mapped(st, row, parent_server_id, got) ==
  [st EXCEPT !.s = got.s,
             !.mapping = Put(@, row.id, got.id),
             !.cache = Put(@, <<parent_server_id, row.title>>, got.id),
             !.pending = SelectSeq(@, LAMBDA r : r.id # row.id),
             !.progressed = TRUE]

Attach(st, user_id, row, parent_server_id) ==
  Mapped(st, row, parent_server_id, FindOrCreate(st.s, user_id, row.title, parent_server_id))

\* for local_id, row in list(pending.items()): the rows whose parent is
\* mapped by now, or that have none
RECURSIVE AttachRound(_, _, _)
AttachRound(st, user_id, todo) ==
  IF todo = <<>> THEN st
  ELSE IF Head(todo).parent_id # NoLocal /\ Head(todo).parent_id \notin DOMAIN st.mapping
    THEN AttachRound(st, user_id, Tail(todo))
  ELSE AttachRound(Attach(st, user_id, Head(todo),
                          IF Head(todo).parent_id = NoLocal THEN NoId
                          ELSE st.mapping[Head(todo).parent_id]),
                   user_id, Tail(todo))

\* if not progressed: every pending row at the root
RECURSIVE ForceRound(_, _, _)
ForceRound(st, user_id, todo) ==
  IF todo = <<>> THEN st
  ELSE ForceRound(Attach(st, user_id, Head(todo), NoId), user_id, Tail(todo))

Forced(st, user_id) == IF st.progressed THEN st ELSE ForceRound(st, user_id, st.pending)

\* A faulty variant: an iteration that never forces the rest to the root
PassWithoutForce(st, user_id) ==
  AttachRound([st EXCEPT !.progressed = FALSE], user_id, st.pending)

\* One iteration of `while pending`
Pass(st, user_id) ==
  Forced(AttachRound([st EXCEPT !.progressed = FALSE], user_id, st.pending), user_id)

\* ensure_path: the folders of a path, each under the one before
Stepped(st, key, got) == [st EXCEPT !.s = got.s, !.cache = Put(@, key, got.id)]

RECURSIVE ensure_path(_, _, _, _)
RECURSIVE PathStep(_, _, _, _, _)
ensure_path(st, user_id, path_parts, parent_id) ==
  IF path_parts = <<>> THEN Found(st, parent_id)
  ELSE IF Strip(Head(path_parts)) = "" THEN ensure_path(st, user_id, Tail(path_parts), parent_id)
  ELSE IF <<parent_id, Strip(Head(path_parts))>> \in DOMAIN st.cache
    THEN ensure_path(st, user_id, Tail(path_parts), st.cache[<<parent_id, Strip(Head(path_parts))>>])
  ELSE PathStep(st, user_id, Tail(path_parts), <<parent_id, Strip(Head(path_parts))>>,
                FindOrCreate(st.s, user_id, Strip(Head(path_parts)), parent_id))

PathStep(st, user_id, rest, key, got) ==
  ensure_path(Stepped(st, key, got), user_id, rest, got.id)

\* for bookmark in local_bookmarks: the folder paths of the bookmarks whose
\* folder is not mapped
Pathed(bookmark, ensured) ==
  IF bookmark.folder_local_id # NoLocal /\ ensured.id # NoId
  THEN [ensured.s EXCEPT !.mapping = Put(@, bookmark.folder_local_id, ensured.id)]
  ELSE ensured.s

\* The reconciliation in service, between two steps of it
InProgress ==
  [s |-> Session(Db), pending |-> last.pending, mapping |-> last.mapping,
   cache |-> last.cache, progressed |-> FALSE]

Written(st) ==
  /\ folders' = st.s.folders
  /\ events' = st.s.events
  /\ now' = st.s.now
  /\ UNCHANGED <<bookmarks, clients>>

Passed(st) ==
  /\ Written(st)
  /\ last' = [last EXCEPT !.pending = st.pending, !.mapping = st.mapping,
                          !.cache = st.cache, !.passes = @ + 1]

Finished(st) ==
  /\ Written(st)
  /\ last' = [last EXCEPT !.mapping = st.mapping, !.cache = st.cache, !.phase = "done"]

Started(user_id, local_folders, local_bookmarks) ==
  /\ last' = [kind |-> "reconcile", user |-> user_id, local |-> local_folders,
              local_bookmarks |-> local_bookmarks, pending |-> local_folders,
              mapping |-> <<>>, cache |-> <<>>, passes |-> 0, phase |-> "folders",
              pre |-> Rows]
  /\ UNCHANGED <<folders, bookmarks, events, clients, now>>

RECURSIVE PathsLoop(_, _, _)
PathsLoop(st, user_id, local_bookmarks) ==
  IF local_bookmarks = <<>> THEN st
  ELSE IF \/ (Head(local_bookmarks).folder_local_id # NoLocal
              /\ Head(local_bookmarks).folder_local_id \in DOMAIN st.mapping)
          \/ Head(local_bookmarks).folder_path = <<>>
    THEN PathsLoop(st, user_id, Tail(local_bookmarks))
  ELSE PathsLoop(Pathed(Head(local_bookmarks),
                        ensure_path(st, user_id, Head(local_bookmarks).folder_path, NoId)),
                 user_id, Tail(local_bookmarks))

\* _ensure_server_folders_from_local on the parsed payload, a step at a time:
\* the entry, each iteration of `while pending`, then the bookmarks' paths.
_ensure_server_folders_from_local(user_id, rows, local_bookmarks) ==
  /\ now <= MaxTime
  /\ DOMAIN folders \subseteq 1..MaxFolders
  /\ Started(user_id, _parse_local_folders(rows), local_bookmarks)

WhilePending ==
  /\ last.kind = "reconcile"
  /\ last.phase = "folders"
  /\ last.pending # <<>>
  /\ Passed(Pass(InProgress, last.user))
  /\ UNCHANGED <<device, jobvars, transactions>>

FolderPaths ==
  /\ last.kind = "reconcile"
  /\ last.phase = "folders"
  /\ last.pending = <<>>
  /\ Finished(PathsLoop(InProgress, last.user, last.local_bookmarks))
  /\ UNCHANGED <<device, jobvars, transactions>>

\* -------------------------------------------------------------- first sync
SYNC_MODE_REPLACE_LOCAL == "replace_local_with_server"
SYNC_MODE_REPLACE_SERVER == "replace_server_with_local"
SYNC_MODE_TWO_WAY == "two_way_merge"
SYNC_FIRST_MODES == {SYNC_MODE_REPLACE_LOCAL, SYNC_MODE_REPLACE_SERVER, SYNC_MODE_TWO_WAY}

\* SYNC_CONFIRM_PHRASES.get(mode, CONFIRM_PHRASE)
CONFIRM_PHRASE == "DELETE ALL LOCAL BOOKMARKS"

SYNC_CONFIRM_PHRASES(mode) ==
  CASE mode = SYNC_MODE_REPLACE_LOCAL -> "DELETE ALL LOCAL BOOKMARKS"
    [] mode = SYNC_MODE_REPLACE_SERVER -> "DELETE ALL SERVER BOOKMARKS"
    [] mode = SYNC_MODE_TWO_WAY -> "SYNC BOOKMARKS BOTH WAYS"
    [] OTHER -> CONFIRM_PHRASE

SECRET_KEY == "default-secret-key"
SYNC_CONFIRM_TTL_SECONDS == 1   \* seconds are the ticks of `now`

\* A JSON true / false is the string "true" / "false", a missing value "".
_to_bool(value) == Lower(Strip(value)) \in {"1", "true", "yes", "on"}

_normalize_sync_mode(raw_mode) ==
  IF Lower(Strip(raw_mode)) = "" THEN SYNC_MODE_REPLACE_LOCAL
  ELSE IF Lower(Strip(raw_mode)) \in SYNC_FIRST_MODES THEN Lower(Strip(raw_mode))
  ELSE ""

\* ---- confirmation tokens
\* URLSafeTimedSerializer: the payload, the time of signing and a signature
\* that only the holder of the key can compute over the two.
Signature(secret_key, payload, timestamp) == <<secret_key, "sync-first-overwrite", payload, timestamp>>

Dumps(secret_key, payload, at) ==
  [payload |-> payload, timestamp |-> at, signature |-> Signature(secret_key, payload, at)]

NoToken == [missing |-> TRUE]
BadData == [invalid |-> TRUE]

\* serializer.loads(token, max_age): BadSignature, or SignatureExpired for an
\* age above max_age
Loads(secret_key, token, max_age, at) ==
  IF token.signature # Signature(secret_key, token.payload, token.timestamp) THEN BadData
  ELSE IF at - token.timestamp > max_age THEN BadData
  ELSE token.payload

create_confirmation_token(secret_key, user_id, client_id, mode, local_count, server_count, ttl_seconds, at) ==
  Dumps(secret_key,
        [user_id |-> user_id, client_id |-> client_id, mode |-> mode,
         local_count |-> local_count, server_count |-> server_count,
         issued_at |-> at, ttl |-> ttl_seconds],
        at)

\* A faulty variant: the mode is not compared
VerifyButMode(payload, expected_user_id, expected_client_id, expected_mode) ==
  IF payload = BadData THEN BadData
  ELSE IF payload.user_id # expected_user_id \/ payload.client_id # expected_client_id
    THEN BadData
  ELSE payload

\* The checks of verify_confirmation_token on the loaded payload
Verified(payload, expected_user_id, expected_client_id, expected_mode) ==
  IF payload = BadData THEN BadData
  ELSE IF payload.user_id # expected_user_id \/ payload.client_id # expected_client_id
    THEN BadData
  ELSE IF expected_mode # "" /\ payload.mode # expected_mode THEN BadData
  ELSE payload

verify_confirmation_token(secret_key, token, max_age, expected_user_id, expected_client_id, expected_mode, at) ==
  Verified(Loads(secret_key, token, max_age, at),
           expected_user_id, expected_client_id, expected_mode)

\* ---- the local snapshot of a request
\* parse_tags: the names stripped and lowered, without the empty one
parse_tags(names) == {Lower(Strip(t)) : t \in names} \ {""}

ParsedBookmark(item) ==
  [id |-> Strip(Get(item, "id", NoLocal)),
   url |-> item.url,
   normalized_url |-> normalize_url(item.url),
   title |-> Strip(Get(item, "title", NoTitle)),
   notes |-> _normalize_notes_value(Get(item, "notes", "")),
   tags |-> parse_tags(Get(item, "tags", {})),
   folder_local_id |-> Strip(Get(item, "folder_local_id", Get(item, "parent_id", NoLocal))),
   folder_path |-> SelectSeq([i \in DOMAIN Get(item, "folder_path", <<>>) |->
                                Strip(item.folder_path[i])],
                             LAMBDA part : part # "")]

Parsable(item) ==
  Get(item, "url", EmptyUrl) # EmptyUrl /\ normalize_url(item.url) # EmptyUrl

_parse_local_bookmarks(rows) ==
  [i \in DOMAIN SelectSeq(rows, Parsable) |-> ParsedBookmark(SelectSeq(rows, Parsable)[i])]

\* ---- queries
\* .order_by(Bookmark.updated_at.desc()).all() over a set of ids
RECURSIVE ByUpdatedDesc(_, _)
ByUpdatedDesc(s, ids) ==
  IF ids = {} THEN <<>>
  ELSE <<LatestUpdated(s, ids)>> \o ByUpdatedDesc(s, ids \ {LatestUpdated(s, ids)})

ActiveIds(s, user_id) ==
  {b \in DOMAIN s.bookmarks : s.bookmarks[b].user_id = user_id
                              /\ s.bookmarks[b].deleted_at = NoTime}

\* A faulty variant: the soft-deleted rows counted too
AllServerBookmarks(s, user_id) ==
  ByUpdatedDesc(s, {b \in DOMAIN s.bookmarks : s.bookmarks[b].user_id = user_id})

_active_server_bookmarks(s, user_id) == ByUpdatedDesc(s, ActiveIds(s, user_id))

\* .order_by(Bookmark.created_at.asc(), Bookmark.id.asc()): rows are created in id order
_sync_snapshot_server_bookmarks(s, user_id) == Ascending(ActiveIds(s, user_id))

\* .order_by(Folder.name.asc())
_active_server_folders(s, user_id) ==
  {f \in DOMAIN s.folders : s.folders[f].user_id = user_id}

_server_snapshot(s, user_id) ==
  [bookmarks |-> [i \in DOMAIN _sync_snapshot_server_bookmarks(s, user_id) |->
                    serialize_bookmark_for_sync(
                      _sync_snapshot_server_bookmarks(s, user_id)[i],
                      s.bookmarks[_sync_snapshot_server_bookmarks(s, user_id)[i]])],
   folders |-> {serialize_folder_for_sync(f, s.folders[f]) :
                  f \in _active_server_folders(s, user_id)}]

\* ---- preflight
LocalCountOf(local_bookmarks, n) ==
  Cardinality({i \in DOMAIN local_bookmarks : local_bookmarks[i].normalized_url = n})

ServerCountOf(s, server_bookmarks, n) ==
  Cardinality({i \in DOMAIN server_bookmarks :
                 s.bookmarks[server_bookmarks[i]].normalized_url = n})

MinOf(a, b) == IF a <= b THEN a ELSE b

RECURSIVE Overlap(_, _, _, _)
Overlap(s, local_bookmarks, server_bookmarks, urls) ==
  IF urls = {} THEN 0
  ELSE LET n == CHOOSE u \in urls : TRUE
       IN MinOf(LocalCountOf(local_bookmarks, n), ServerCountOf(s, server_bookmarks, n))
            + Overlap(s, local_bookmarks, server_bookmarks, urls \ {n})

\* A faulty variant: every local entry whose URL the server has counts as matched
EstimateFanOut(s, local_bookmarks, server_bookmarks) ==
  [local_add_to_server |->
     Cardinality({i \in DOMAIN local_bookmarks :
                    ServerCountOf(s, server_bookmarks, local_bookmarks[i].normalized_url) = 0}),
   server_add_to_local |->
     Len(server_bookmarks)
       - Cardinality({i \in DOMAIN local_bookmarks :
                        ServerCountOf(s, server_bookmarks, local_bookmarks[i].normalized_url) > 0}),
   matched |->
     Cardinality({i \in DOMAIN local_bookmarks :
                    ServerCountOf(s, server_bookmarks, local_bookmarks[i].normalized_url) > 0})]

_estimate_two_way_merge_counts(s, local_bookmarks, server_bookmarks) ==
  LET urls == {local_bookmarks[i].normalized_url : i \in DOMAIN local_bookmarks}
                \cup ({s.bookmarks[server_bookmarks[i]].normalized_url :
                         i \in DOMAIN server_bookmarks} \ {EmptyUrl})
      matched == Overlap(s, local_bookmarks, server_bookmarks, urls)
      counted == Len(SelectSeq(server_bookmarks,
                               LAMBDA b : s.bookmarks[b].normalized_url # EmptyUrl))
  IN [local_add_to_server |-> Len(local_bookmarks) - matched,
      server_add_to_local |-> counted - matched,
      matched |-> matched]

Impact(local_deletions, local_additions, server_deletions, server_additions) ==
  [local_deletions |-> local_deletions, local_additions |-> local_additions,
   server_deletions |-> server_deletions, server_additions |-> server_additions]

PreflightPayload(mode, local_count, server_count, would_noop, no_op_reason, impact) ==
  [mode |-> mode, required_phrase |-> SYNC_CONFIRM_PHRASES(mode),
   local_bookmark_count |-> local_count, server_bookmark_count |-> server_count,
   impact |-> impact, would_noop |-> would_noop, no_op_reason |-> no_op_reason]

\* _build_sync_preflight_payload with the server rows it has queried
BuildPreflight(s, mode, local_bookmarks, server_bookmarks) ==
  IF mode = SYNC_MODE_REPLACE_LOCAL THEN
    IF Len(server_bookmarks) = 0
    THEN PreflightPayload(mode, Len(local_bookmarks), 0, TRUE, "server_empty",
                          Impact(0, 0, 0, 0))
    ELSE PreflightPayload(mode, Len(local_bookmarks), Len(server_bookmarks), FALSE, "",
                          Impact(Len(local_bookmarks), Len(server_bookmarks), 0, 0))
  ELSE IF mode = SYNC_MODE_REPLACE_SERVER THEN
    IF Len(local_bookmarks) = 0
    THEN PreflightPayload(mode, 0, Len(server_bookmarks), TRUE, "local_empty",
                          Impact(0, 0, 0, 0))
    ELSE PreflightPayload(mode, Len(local_bookmarks), Len(server_bookmarks), FALSE, "",
                          Impact(0, 0, Len(server_bookmarks), Len(local_bookmarks)))
  ELSE
    LET merge_counts == _estimate_two_way_merge_counts(s, local_bookmarks, server_bookmarks)
    IN PreflightPayload(mode, Len(local_bookmarks), Len(server_bookmarks), FALSE, "",
                        Impact(0, merge_counts.server_add_to_local, 0,
                               merge_counts.local_add_to_server)
                          @@ [matched |-> merge_counts.matched])

\* A faulty variant: every row of the user counted, soft-deleted or not
PreflightOverAllRows(s, mode, local_bookmarks, user_id) ==
  BuildPreflight(s, mode, local_bookmarks, AllServerBookmarks(s, user_id))

_build_sync_preflight_payload(s, mode, local_bookmarks, user_id) ==
  BuildPreflight(s, mode, local_bookmarks, _active_server_bookmarks(s, user_id))

\* ---- the server side of an apply
\* walk(folder) of _delete_server_folder_tree: the folder after its children,
\* each folder once; `acc` is the visited set and the order so far.
RECURSIVE Walk(_, _, _, _)
RECURSIVE WalkEach(_, _, _, _)
Walk(s, user_id, folder, acc) ==
  IF folder \in acc.visited THEN acc
  ELSE [WalkEach(s, user_id,
                 Ascending({c \in DOMAIN s.folders : /\ s.folders[c].user_id = user_id
                                                     /\ s.folders[c].parent_id = folder}),
                 [acc EXCEPT !.visited = @ \cup {folder}])
          EXCEPT !.ordered = Append(@, folder)]

WalkEach(s, user_id, todo, acc) ==
  IF todo = <<>> THEN acc
  ELSE WalkEach(s, user_id, Tail(todo), Walk(s, user_id, Head(todo), acc))

\* The roots first, then every folder
DeleteOrder(s, user_id) ==
  WalkEach(s, user_id,
           Ascending({f \in DOMAIN s.folders : /\ s.folders[f].user_id = user_id
                                               /\ s.folders[f].parent_id = NoId})
             \o Ascending({f \in DOMAIN s.folders : s.folders[f].user_id = user_id}),
           [visited |-> {}, ordered |-> <<>>]).ordered

\* A faulty variant: the folder before its children
DeleteParentsFirst(s, user_id, ordered) ==
  IF ordered = <<>> THEN s
  ELSE [s EXCEPT
          !.events = @ \o [i \in DOMAIN ordered |->
                             [id |-> Len(@) + i, user_id |-> user_id,
                              entity_type |-> "folder",
                              entity_id |-> ordered[Len(ordered) + 1 - i],
                              action |-> "delete",
                              payload |-> serialize_folder_for_sync(
                                            ordered[Len(ordered) + 1 - i],
                                            s.folders[ordered[Len(ordered) + 1 - i]])]],
          !.folders = [f \in DOMAIN @ \ Range(ordered) |-> @[f]]]

\* for folder in ordered: the delete event, then db.session.delete(folder)
RECURSIVE DeleteOrdered(_, _, _)
DeleteOrdered(s, user_id, ordered) ==
  IF ordered = <<>> THEN s
  ELSE DeleteOrdered(
         [log_sync_event(s, user_id, "folder", Head(ordered), "delete",
                         serialize_folder_for_sync(Head(ordered), s.folders[Head(ordered)]))
            EXCEPT !.folders = [f \in DOMAIN @ \ {Head(ordered)} |-> @[f]]],
         user_id, Tail(ordered))

\* The flush of the deleted folders: the bookmark rows that still refer to one
\* (rows of other users) are de-associated by the ORM; folders that are each
\* other's parent cannot be ordered for deletion (CircularDependencyError).
FlushDeleted(before, s, t) ==
  IF \E f \in DOMAIN before.folders \ DOMAIN s.folders : OwnAncestor(before.folders, f)
  THEN [s EXCEPT !.raised = TRUE]
  ELSE [s EXCEPT !.now = t,
                 !.bookmarks =
                   [b \in DOMAIN @ |->
                      IF @[b].folder_id \in DOMAIN before.folders \ DOMAIN s.folders
                      THEN [@[b] EXCEPT !.folder_id = NoId, !.updated_at = t]
                      ELSE @[b]]]

_delete_server_folder_tree(s, user_id, t) ==
  FlushDeleted(s, DeleteOrdered(s, user_id, DeleteOrder(s, user_id)), t)

\* _ensure_server_folders_from_local from entry to return
RECURSIVE WhileLoop(_, _)
WhileLoop(st, user_id) ==
  IF st.pending = <<>> THEN st ELSE WhileLoop(Pass(st, user_id), user_id)

EnsureServerFolders(s, user_id, local_folders, local_bookmarks) ==
  PathsLoop(WhileLoop([s |-> s, pending |-> local_folders, mapping |-> <<>>,
                       cache |-> <<>>, progressed |-> FALSE], user_id),
            user_id, local_bookmarks)

\* What fetch_and_extract finds at a URL
Page(status, text) == [status |-> status, text |-> text]
Pages == {Page("alive", "page text"), Page("alive", ""), Page("unreachable", "")}

\* A faulty variant: the content is fetched whatever populate_content says
CreateFetching(s, user, item, folder_map, populate_content, page) ==
  LET id == NextId(s.bookmarks)
      row == [user_id |-> user, url |-> item.url,
              normalized_url |-> normalize_url(item.url),
              title |-> item.title, tags |-> item.tags,
              notes |-> IF _normalize_notes_value(page.text) # NoNotes
                        THEN _normalize_notes_value(page.text) ELSE item.notes,
              folder_id |-> IF item.folder_local_id # NoLocal
                            THEN Get(folder_map, item.folder_local_id, NoId) ELSE NoId,
              link_status |-> page.status,
              deleted_at |-> NoTime, deleted_by |-> NoId, updated_at |-> s.now + 1]
  IN Found(log_sync_event([s EXCEPT !.bookmarks = @ @@ (id :> row),
                                    !.loaded = @ \cup {id}, !.now = s.now + 1],
                          user, "bookmark", id, "create",
                          serialize_bookmark_for_sync(id, row)),
           id)

\* The new row, its tags and, with populate_content, what the fetch found; the
\* session and the id, NoId for an item without URL
_create_server_bookmark_from_local(s, user, item, folder_map, populate_content, page) ==
  IF normalize_url(item.url) = EmptyUrl THEN Found(s, NoId)
  ELSE
    LET id == NextId(s.bookmarks)
        row == [user_id |-> user, url |-> item.url,
                normalized_url |-> normalize_url(item.url),
                title |-> item.title, tags |-> item.tags,
                notes |-> IF populate_content /\ _normalize_notes_value(page.text) # NoNotes
                          THEN _normalize_notes_value(page.text) ELSE item.notes,
                folder_id |-> IF item.folder_local_id # NoLocal
                              THEN Get(folder_map, item.folder_local_id, NoId) ELSE NoId,
                link_status |-> IF populate_content THEN page.status ELSE NoStatus,
                deleted_at |-> NoTime, deleted_by |-> NoId, updated_at |-> s.now + 1]
    IN Found(log_sync_event([s EXCEPT !.bookmarks = @ @@ (id :> row),
                                      !.loaded = @ \cup {id}, !.now = s.now + 1],
                            user, "bookmark", id, "create",
                            serialize_bookmark_for_sync(id, row)),
             id)

\* What an apply has done: the session, the two mappings, the counts and the
\* ids for the enrichment; `cleared` is the session as the folder tree's
\* deletion found it.
Done(s, folder_map, bookmark_map, counts, created) ==
  [s |-> s, folder_map |-> folder_map, bookmark_map |-> bookmark_map,
   counts |-> counts, created |-> created, cleared |-> s]

\* A faulty variant: the soft delete without its event
SoftDeleteSilently(s, user, ids, t) ==
  [s EXCEPT !.now = IF ids = <<>> THEN @ ELSE t,
            !.bookmarks = [b \in DOMAIN @ |->
                             IF b \in Range(ids)
                             THEN [@[b] EXCEPT !.deleted_at = t, !.deleted_by = user,
                                               !.updated_at = t]
                             ELSE @[b]]]

\* for bookmark in active_server_bookmarks: the soft delete and its event
RECURSIVE SoftDeleteAll(_, _, _, _)
SoftDeleteAll(s, user, ids, t) ==
  IF ids = <<>> THEN s
  ELSE SoftDeleteAll(
         StoreBookmark(s, user, Head(ids),
                       [s.bookmarks[Head(ids)] EXCEPT !.deleted_at = t, !.deleted_by = user],
                       "delete", t),
         user, Tail(ids), t)

\* for bookmark in all_bookmarks: bookmark.folder_id = None
ClearFolderRefs(s, user, t) ==
  [s EXCEPT !.bookmarks =
     [b \in DOMAIN @ |->
        IF @[b].user_id = user
        THEN Flushed(@[b], [@[b] EXCEPT !.folder_id = NoId], t) ELSE @[b]]]

\* for item in local_bookmarks of _replace_server_with_local_snapshot
Created(acc, item, got) ==
  IF got.id = NoId THEN acc
  ELSE [acc EXCEPT !.s = got.s,
                   !.created = Append(@, got.id),
                   !.bookmark_map = IF item.id # NoLocal THEN Put(@, item.id, got.id) ELSE @]

\* `page` is what a fetch of the entries' URLs finds
RECURSIVE CreateAll(_, _, _, _, _)
CreateAll(acc, user, items, populate_content, page) ==
  IF items = <<>> THEN acc
  ELSE CreateAll(Created(acc, Head(items),
                         _create_server_bookmark_from_local(acc.s, user, Head(items),
                                                            acc.folder_map, populate_content,
                                                            page)),
                 user, Tail(items), populate_content, page)

Rebuilt(user, local_bookmarks, server_deleted, folders_deleted, page, st) ==
  CreateAll(Done(st.s, st.mapping, <<>>,
                 [server_deleted |-> server_deleted, folders_deleted |-> folders_deleted],
                 <<>>),
            user, local_bookmarks, FALSE, page)

Emptied(user, local_folders, local_bookmarks, server_deleted, folders_deleted, page, s) ==
  IF s.raised THEN Done(s, <<>>, <<>>, <<>>, <<>>)
  ELSE Rebuilt(user, local_bookmarks, server_deleted, folders_deleted, page,
               EnsureServerFolders(s, user, local_folders, local_bookmarks))

Counted(done) ==
  [done EXCEPT !.counts = @ @@ [server_created |-> Len(done.created)]]

Swept(user, local_folders, local_bookmarks, server_deleted, folders_deleted, page, cleared, t) ==
  [Emptied(user, local_folders, local_bookmarks, server_deleted, folders_deleted, page,
           _delete_server_folder_tree(cleared, user, t))
     EXCEPT !.cleared = cleared]

_replace_server_with_local_snapshot(s, user, local_folders, local_bookmarks, page) ==
  Counted(
    Swept(user, local_folders, local_bookmarks,
          Len(_active_server_bookmarks(s, user)),
          Cardinality(_active_server_folders(s, user)),
          page,
          ClearFolderRefs(
            SoftDeleteAll(s, user, _active_server_bookmarks(s, user), s.now + 1),
            user, s.now + 1),
          s.now + 1))

\* A faulty variant: a server bookmark matched again
CandidatesUsedToo(acc, server_bookmarks, item) ==
  SelectSeq(server_bookmarks,
            LAMBDA b : acc.s.bookmarks[b].normalized_url = item.normalized_url)

\* for item in local_bookmarks of _two_way_merge_snapshot: `used` is
\* used_server_ids, `server_bookmarks` the active rows in the order of the query
Candidates(acc, server_bookmarks, item) ==
  SelectSeq(server_bookmarks,
            LAMBDA b : /\ acc.s.bookmarks[b].normalized_url = item.normalized_url
                       /\ b \notin acc.used)

\* A faulty variant: the matched row takes the local notes
MatchedOverwriting(acc, item, matched) ==
  [acc EXCEPT !.used = @ \cup {matched},
              !.s = StoreBookmark(@, acc.s.bookmarks[matched].user_id, matched,
                                  [acc.s.bookmarks[matched] EXCEPT !.notes = item.notes],
                                  "update", acc.s.now + 1),
              !.bookmark_map = IF item.id # NoLocal THEN Put(@, item.id, matched) ELSE @]

Matched(acc, item, matched) ==
  [acc EXCEPT !.used = @ \cup {matched},
              !.bookmark_map = IF item.id # NoLocal THEN Put(@, item.id, matched) ELSE @]

RECURSIVE MergeAll(_, _, _, _, _)
MergeAll(acc, user, server_bookmarks, items, page) ==
  IF items = <<>> THEN acc
  ELSE IF Candidates(acc, server_bookmarks, Head(items)) # <<>>
    THEN MergeAll(Matched(acc, Head(items),
                          Head(Candidates(acc, server_bookmarks, Head(items)))),
                  user, server_bookmarks, Tail(items), page)
  ELSE MergeAll(Created(acc, Head(items),
                        _create_server_bookmark_from_local(acc.s, user, Head(items),
                                                           acc.folder_map, TRUE, page)),
                user, server_bookmarks, Tail(items), page)

Paired(user, local_bookmarks, page, st) ==
  MergeAll(Done(st.s, st.mapping, <<>>, [server_updated |-> 0], <<>>) @@ [used |-> {}],
           user, _active_server_bookmarks(st.s, user), local_bookmarks, page)

_two_way_merge_snapshot(s, user, local_folders, local_bookmarks, page) ==
  Counted(Paired(user, local_bookmarks, page,
                 EnsureServerFolders(s, user, local_folders, local_bookmarks)))

\* The request of a first-sync call as the handler reads it
FirstRequest(kind, user, payload) ==
  [kind |-> kind, user |-> user, at |-> now, pre |-> Rows,
   client_id |-> Strip(payload.client_id),
   mode |-> _normalize_sync_mode(payload.mode),
   local_bookmarks |-> _parse_local_bookmarks(payload.local_bookmarks)]

Refused(request, code, error) ==
  /\ last' = request @@ [code |-> code, error |-> error, phase |-> "done"]
  /\ UNCHANGED <<folders, bookmarks, events, clients, now>>

Preflighted(request, preflight) ==
  /\ clients' = ensure_sync_client(clients, request.user, request.client_id)
  /\ last' = request @@
       [code |-> 200, error |-> "", phase |-> "done", preflight |-> preflight,
        confirmation_token |->
          create_confirmation_token(SECRET_KEY, request.user, request.client_id,
                                    request.mode, preflight.local_bookmark_count,
                                    preflight.server_bookmark_count,
                                    SYNC_CONFIRM_TTL_SECONDS, now)]
  /\ UNCHANGED <<folders, bookmarks, events, now>>

PreflightOf(request) ==
  IF request.client_id = "" THEN Refused(request, 400, "client_id is required")
  ELSE IF request.mode = "" THEN Refused(request, 400, "invalid mode")
  ELSE Preflighted(request,
                   _build_sync_preflight_payload(Session(Db), request.mode,
                                                 request.local_bookmarks, request.user))

sync_first_preflight(user, payload) ==
  /\ now <= MaxTime
  /\ PreflightOf(FirstRequest("preflight", user, payload))

\* ---- apply
ApplyRequest(user, payload) ==
  FirstRequest("apply", user, payload) @@
    [confirmation_token |-> payload.confirmation_token,
     typed_phrase |-> Strip(payload.typed_phrase),
     confirm_checked |-> _to_bool(payload.confirm_checked),
     local_folders |-> _parse_local_folders(payload.local_folders)]

NoOp(request, registered, reason, local_bookmark_count, server_bookmark_count) ==
  /\ clients' = registered
  /\ last' = request @@
       [code |-> 200, error |-> "", phase |-> "done", status |-> "no_op", reason |-> reason,
        local_bookmark_count |-> local_bookmark_count,
        server_bookmark_count |-> server_bookmark_count]
  /\ UNCHANGED <<folders, bookmarks, events, now>>

NoWorker == [user_id |-> NoId, bookmark_ids |-> <<>>]

\* From _server_snapshot to the commit.  An exception before it leaves the
\* client row that ensure_sync_client committed and nothing else.  The handler
\* goes on to start the enrichment (phase "committed") when it has ids for it.
Committed(request, registered, response_status, reason, done) ==
  IF done.s.raised
  THEN /\ clients' = registered
       /\ last' = request @@ [code |-> 500, error |-> "exception", phase |-> "done"]
       /\ UNCHANGED <<folders, bookmarks, events, now>>
  ELSE /\ folders' = done.s.folders
       /\ bookmarks' = done.s.bookmarks
       /\ events' = done.s.events
       /\ now' = done.s.now
       /\ clients' = [registered EXCEPT ![<<request.user, request.client_id>>] =
                        LatestCursor(done.s.events, request.user)]
       /\ last' = request @@
            [code |-> 200, error |-> "", status |-> response_status, reason |-> reason,
             snapshot |-> _server_snapshot(done.s, request.user),
             cursor |-> LatestCursor(done.s.events, request.user),
             local_folder_id_to_server_id |-> done.folder_map,
             local_bookmark_id_to_server_id |-> done.bookmark_map,
             counts |-> done.counts,
             background_enrichment_ids |->
               IF request.mode = SYNC_MODE_REPLACE_SERVER THEN done.created ELSE <<>>,
             cleared |-> [bookmarks |-> done.cleared.bookmarks,
                          events |-> done.cleared.events],
             worker |-> NoWorker, warned |-> FALSE,
             phase |-> IF request.mode = SYNC_MODE_REPLACE_SERVER /\ done.created # <<>>
                       THEN "committed" ELSE "done"]

\* sync_first_apply behind its gates: the two no-ops, then the three modes
Dispatch(request, page, registered, server_count_now) ==
  IF request.mode = SYNC_MODE_REPLACE_LOCAL /\ server_count_now = 0
  THEN NoOp(request, registered, "server_empty", Len(request.local_bookmarks), 0)
  ELSE IF request.mode = SYNC_MODE_REPLACE_SERVER /\ Len(request.local_bookmarks) = 0
    THEN NoOp(request, registered, "local_empty", 0, server_count_now)
  ELSE IF request.mode = SYNC_MODE_REPLACE_SERVER
    THEN Committed(request, registered, "snapshot", "",
                   _replace_server_with_local_snapshot(Session(Db), request.user,
                                                       request.local_folders,
                                                       request.local_bookmarks, page))
  ELSE IF request.mode = SYNC_MODE_TWO_WAY
    THEN Committed(request, registered, "merged", "",
                   _two_way_merge_snapshot(Session(Db), request.user, request.local_folders,
                                           request.local_bookmarks, page))
  ELSE Committed(request, registered, "snapshot", "replace_local_with_server",
                 Done(Session(Db), <<>>, <<>>, <<>>, <<>>))

\* A faulty variant: the no-ops decided on the count that the token carries
GatedOnTokenCount(request, page, registered, server_count_now) ==
  Dispatch(request, page, registered, request.confirmation_token.payload.server_count)

\* server_count_now = len(_active_server_bookmarks(user.id))
Gated(request, page, registered, server_count_now) ==
  Dispatch(request, page, registered, server_count_now)

\* A faulty variant: the token is looked at first and the phrase not at all
ApplyOnTokenAlone(request, page) ==
  IF request.client_id = "" \/ request.confirmation_token = NoToken \/ request.mode = ""
  THEN Refused(request, 400, "client_id, mode, and confirmation_token are required")
  ELSE IF verify_confirmation_token(SECRET_KEY, request.confirmation_token,
                                    SYNC_CONFIRM_TTL_SECONDS, request.user,
                                    request.client_id, request.mode, now) = BadData
    THEN Refused(request, 400, "invalid or expired confirmation token")
  ELSE Gated(request, page, ensure_sync_client(clients, request.user, request.client_id),
             Len(_active_server_bookmarks(Session(Db), request.user)))

ApplyOf(request, page) ==
  IF request.client_id = "" \/ request.confirmation_token = NoToken \/ request.mode = ""
  THEN Refused(request, 400, "client_id, mode, and confirmation_token are required")
  ELSE IF request.typed_phrase # SYNC_CONFIRM_PHRASES(request.mode) \/ ~request.confirm_checked
    THEN Refused(request, 400, "destructive confirmation failed")
  ELSE IF verify_confirmation_token(SECRET_KEY, request.confirmation_token,
                                    SYNC_CONFIRM_TTL_SECONDS, request.user,
                                    request.client_id, request.mode, now) = BadData
    THEN Refused(request, 400, "invalid or expired confirmation token")
  ELSE Gated(request, page, ensure_sync_client(clients, request.user, request.client_id),
             Len(_active_server_bookmarks(Session(Db), request.user)))

\* sync_first_apply up to its commit; `page` is what the fetches of the
\* request find.
sync_first_apply(user, payload, page) ==
  /\ now <= MaxTime
  /\ DOMAIN folders \subseteq 1..MaxFolders
  /\ DOMAIN bookmarks \subseteq 1..MaxBookmarks
  /\ ApplyOf(ApplyRequest(user, payload), page)

\* ordered_ids of start_sync_first_replace_server_enrichment: the ids without
\* repetition and without an empty one
RECURSIVE OrderedIds(_, _)
OrderedIds(bookmark_ids, seen) ==
  IF bookmark_ids = <<>> THEN <<>>
  ELSE IF Head(bookmark_ids) = NoId \/ Head(bookmark_ids) \in seen
    THEN OrderedIds(Tail(bookmark_ids), seen)
  ELSE <<Head(bookmark_ids)>> \o OrderedIds(Tail(bookmark_ids), seen \cup {Head(bookmark_ids)})

\* The end of sync_first_apply after the commit: the worker thread is started
\* with the ids, or starting it raises, which the handler logs and ignores.
StartEnrichment ==
  /\ last.kind = "apply"
  /\ last.phase = "committed"
  /\ \E starts \in BOOLEAN :
       last' = [last EXCEPT
                  !.phase = "done",
                  !.warned = ~starts,
                  !.worker = IF starts /\ OrderedIds(last.background_enrichment_ids, {}) # <<>>
                             THEN [user_id |-> last.user,
                                   bookmark_ids |->
                                     OrderedIds(last.background_enrichment_ids, {})]
                             ELSE NoWorker]
  /\ UNCHANGED <<folders, bookmarks, events, clients, now, device, jobvars, transactions>>

\* ------------------------------------------------------------ specification
\* Requests are served one at a time: `last` holds the request in service and
\* its response until the response has left (Respond).
Idle == [kind |-> "idle"]

\* What a device holds between the preflight and the apply of a first sync
NoHeld == [confirmation_token |-> NoToken, mode |-> ""]
Serving == last = Idle

\* No thread runs a job; no stop request is in service and none was served
NoThread == [pc |-> "none"]
NoRequest ==
  [pc |-> "idle", served |-> 0, job_id |-> NoId, user_id |-> NoId, returned |-> FALSE,
   accepted |-> {}]

\* The threads that serve requests at once; none has a transaction open
MaxWriters == 2
Writers == 1..MaxWriters
NoTransaction == [pc |-> "none"]

Respond ==
  /\ last # Idle
  /\ last.kind \in {"reconcile", "apply"} => last.phase = "done"
  /\ last' = Idle
  /\ UNCHANGED <<folders, bookmarks, events, clients, now, device, jobvars, transactions>>

Init ==
  /\ folders = <<>>
  /\ bookmarks = <<>>
  /\ events = <<>>
  /\ clients = <<>>
  /\ now = 0
  /\ last = Idle
  /\ device = [at |-> 0, data |-> <<>>, cursor |-> 0, held |-> NoHeld]
  /\ dead_link_jobs = <<>>
  /\ import_jobs = <<>>
  /\ _STOP_REQUESTED = {}
  /\ _RUNTIME_STATE = [dead_link |-> <<>>, import |-> <<>>]
  /\ coordinator = NoThread
  /\ importer = NoThread
  /\ stop_request = NoRequest
  /\ transactions = [w \in Writers |-> NoTransaction]

BookmarkOp(action, data) == [entity_type |-> "bookmark", op |-> action, data |-> data]
FolderOp(action, data) == [entity_type |-> "folder", op |-> action, data |-> data]
ListsUpTo(S, n) == UNION {[1..k -> S] : k \in 0..n}

\* The sync protocol: two users pushing a few operations at a time and pulling.
ProtocolOps ==
  {FolderOp("create", [name |-> "Work"]),
   BookmarkOp("create", [url |-> UrlA1]),
   BookmarkOp("delete", [id |-> 1])}

Push == /\ Serving
        /\ \E u \in Users, ops \in ListsUpTo(ProtocolOps, MaxOps) : sync_push(u, "c1", ops)
        /\ UNCHANGED <<device, jobvars, transactions>>
Pull == /\ Serving
        /\ \E u \in Users, since \in (-1)..MaxCursor, limit \in (-1)..MaxLimit :
             sync_pull(u, since, limit)
        /\ UNCHANGED <<device, jobvars, transactions>>

Next == Push \/ Pull \/ Respond

Spec == Init /\ [][Next]_vars

\* The client cursors: three devices registering, pushing, pulling and acking.
Devices == {<<1, "c1">>, <<1, "c2">>, <<2, "c1">>}

Register == /\ Serving
            /\ \E d \in Devices : sync_register_client(d[1], d[2])
            /\ UNCHANGED <<device, jobvars, transactions>>
PushOne == /\ Serving
           /\ \E d \in Devices, ops \in ListsUpTo(ProtocolOps, 1) : sync_push(d[1], d[2], ops)
           /\ UNCHANGED <<device, jobvars, transactions>>
PullAll == /\ Serving
           /\ \E u \in Users, since \in 0..MaxCursor : sync_pull(u, since, MaxLimit)
           /\ UNCHANGED <<device, jobvars, transactions>>
Ack == /\ Serving
       /\ \E d \in Devices, cursor \in 0..MaxCursor : sync_ack(d[1], d[2], cursor)
       /\ UNCHANGED <<device, jobvars, transactions>>

NextCursor == Register \/ PushOne \/ PullAll \/ Ack \/ Respond

SpecCursor == Init /\ [][NextCursor]_vars

\* The merge rules: user 1 pushes one operation at a time out of the whole
\* vocabulary below; user 2 owns rows too.
Stamps == {NoStamp, Stamp(1, "naive"), Stamp(1, "bad")} \cup {Stamp(t, "aware") : t \in 1..MaxTime}

With(data, id, stamp) ==
  data @@ (IF stamp = NoStamp THEN [id |-> id] ELSE [id |-> id, updated_at |-> stamp])

BookmarkCreates ==
  {[url |-> u] : u \in RawUrls}
    \cup {[url |-> UrlA2, notes |-> "n2", folder_id |-> 1], [url |-> UrlA1, notes |-> "none"]}

BookmarkChanges ==
  {<<>>, [url |-> UrlB1], [notes |-> "n2"], [folder_id |-> 1]}

FolderCreates ==
  {[name |-> "Work"], [name |-> "Home"], [name |-> " "],
   [name |-> "Work", parent_id |-> 1], [name |-> "Home", parent_id |-> 1],
   [name |-> "Work", parent_id |-> 2]}

FolderChanges ==
  {[name |-> "Home"], [parent_id |-> NoId], [parent_id |-> 1], [parent_id |-> 2],
   [name |-> "Work", parent_id |-> 2]}

BookmarkOps ==
  {BookmarkOp("create", d) : d \in BookmarkCreates}
    \cup {BookmarkOp("update", With(d, id, st)) :
            d \in BookmarkChanges, id \in 1..MaxBookmarks, st \in Stamps}
    \cup {BookmarkOp(a, With(<<>>, id, st)) :
            a \in {"delete", "restore"}, id \in 1..MaxBookmarks, st \in Stamps}

FolderOps ==
  {FolderOp("create", d) : d \in FolderCreates}
    \cup {FolderOp("update", With(d, id, st)) :
            d \in FolderChanges, id \in 1..MaxFolders, st \in Stamps}
    \cup {FolderOp(a, With(<<>>, id, st)) :
            a \in {"delete", "restore"}, id \in 1..MaxFolders, st \in Stamps}

PushBookmark == /\ Serving
                /\ \E op \in BookmarkOps : sync_push(1, "c1", <<op>>)
                /\ UNCHANGED <<device, jobvars, transactions>>
PushFolder == /\ Serving
              /\ \E op \in FolderOps : sync_push(1, "c1", <<op>>)
              /\ UNCHANGED <<device, jobvars, transactions>>
PushOther == /\ Serving
             /\ \E op \in ProtocolOps : sync_push(2, "c1", <<op>>)
             /\ UNCHANGED <<device, jobvars, transactions>>

NextMerge == PushBookmark \/ PushFolder \/ PushOther \/ Respond

SpecMerge == Init /\ [][NextMerge]_vars

\* The reconciliation of user 1's local folders with a server tree that pushes
\* have seeded (a push can seed a cycle).
MaxLocal == 3       \* rows of a local_folders payload

LocalRows ==
  {[id |-> i, parent_id |-> q, title |-> "Work"] :
     i \in {"1", "2", "3"}, q \in {NoLocal, "1", "2", "9"}}
    \cup {[id |-> " 2", parent_id |-> "1", title |-> "Home"],
          [id |-> NoLocal, parent_id |-> NoLocal, title |-> "Work"],
          [id |-> "3", parent_id |-> " 2", title |-> " "]}

LocalBookmarkLists ==
  {<<>>,
   <<[folder_local_id |-> "7", folder_path |-> <<"Work", " ", "Home">>]>>,
   <<[folder_local_id |-> "1", folder_path |-> <<"Home">>],
     [folder_local_id |-> NoLocal, folder_path |-> <<"Home", "Work">>]>>}

SeedOps ==
  {FolderOp("create", [name |-> "Work"]),
   FolderOp("create", [name |-> "Home", parent_id |-> 1]),
   FolderOp("update", [id |-> 1, parent_id |-> 2])}

Seed == /\ Serving
        /\ \E u \in Users, op \in SeedOps : sync_push(u, "c1", <<op>>)
        /\ UNCHANGED <<device, jobvars, transactions>>

Reconcile ==
  /\ Serving
  /\ \E rows \in ListsUpTo(LocalRows, MaxLocal), local_bookmarks \in LocalBookmarkLists :
       _ensure_server_folders_from_local(1, rows, local_bookmarks)
  /\ UNCHANGED <<device, jobvars, transactions>>

NextReconcile == Seed \/ Reconcile \/ WhilePending \/ FolderPaths \/ Respond

SpecReconcile == Init /\ [][NextReconcile]_vars

\* End to end: device "A" of user 1, who has nothing yet, registers, pushes a
\* folder create, pulls since 0, acks the pulled cursor, pushes the same create
\* again and pulls since the acked cursor, each request after the response to
\* the one before; user 2 pushes in between.
At(n) == Serving /\ device.at = n

RunRegister ==
  /\ At(0)
  /\ sync_register_client(1, "A")
  /\ device' = [device EXCEPT !.at = 1]
  /\ UNCHANGED <<jobvars, transactions>>

RunPush ==
  /\ At(1)
  /\ \E d \in FolderCreates :
       /\ sync_push(1, "A", <<FolderOp("create", d)>>)
       /\ device' = [device EXCEPT !.at = 2, !.data = d]
       /\ UNCHANGED <<jobvars, transactions>>

RunPull ==
  /\ At(2)
  /\ sync_pull(1, 0, MaxLimit)
  /\ device' = [device EXCEPT !.at = 3, !.cursor = last'.cursor]
  /\ UNCHANGED <<jobvars, transactions>>

RunAck ==
  /\ At(3)
  /\ sync_ack(1, "A", device.cursor)
  /\ device' = [device EXCEPT !.at = 4]
  /\ UNCHANGED <<jobvars, transactions>>

RunPushAgain ==
  /\ At(4)
  /\ sync_push(1, "A", <<FolderOp("create", device.data)>>)
  /\ device' = [device EXCEPT !.at = 5]
  /\ UNCHANGED <<jobvars, transactions>>

RunPullAgain ==
  /\ At(5)
  /\ sync_pull(1, device.cursor, MaxLimit)
  /\ device' = [device EXCEPT !.at = 6]
  /\ UNCHANGED <<jobvars, transactions>>

NextRun ==
  \/ RunRegister \/ RunPush \/ RunPull \/ RunAck \/ RunPushAgain \/ RunPullAgain
  \/ PushOther \/ Respond

SpecRun == Init /\ [][NextRun]_vars

\* The first sync of device "c1" of user 1.  What it sends:
ItemA1 == [id |-> "b1", url |-> UrlA1, title |-> "A", notes |-> "n1",
           tags |-> {"News", " news"}, folder_local_id |-> "1"]
ItemA2 == [id |-> "b2", url |-> UrlA2, folder_local_id |-> "7", folder_path |-> <<"Home">>]
ItemB == [id |-> "b3", url |-> UrlB1, notes |-> "none", parent_id |-> "2"]
ItemNoUrl == [id |-> "b4", url |-> EmptyUrl, title |-> "A"]

RawModes == SYNC_FIRST_MODES \cup {"", " Two_Way_Merge ", "bogus"}

FirstPayload(client_id, mode, local_bookmarks) ==
  [client_id |-> client_id, mode |-> mode, local_bookmarks |-> local_bookmarks]

Confirmed(payload, confirmation_token, typed_phrase, confirm_checked, local_folders) ==
  payload @@ [confirmation_token |-> confirmation_token, typed_phrase |-> typed_phrase,
              confirm_checked |-> confirm_checked, local_folders |-> local_folders]

\* The device keeps the token of the preflight that was answered.
Holding(answer) ==
  IF answer.code = 200
  THEN device' = [device EXCEPT !.held = [confirmation_token |-> answer.confirmation_token,
                                          mode |-> answer.mode]]
  ELSE UNCHANGED device

\* ---- the gates of the apply: the device asks for a preflight, waits, and
\* applies with every phrase and checkbox; anyone presents its token, as it
\* is, altered or not at all.
GateItems == {<<>>, <<ItemA1>>, <<ItemNoUrl>>}

GateOps == {BookmarkOp("create", [url |-> UrlA1]), BookmarkOp("delete", [id |-> 1])}

GateSeed == /\ Serving
            /\ \E u \in Users, op \in GateOps : sync_push(u, "c1", <<op>>)
            /\ UNCHANGED <<device, jobvars, transactions>>

GatePreflight ==
  /\ Serving
  /\ \E client_id \in {"c1", ""}, mode \in RawModes, rows \in GateItems :
       sync_first_preflight(1, FirstPayload(client_id, mode, rows))
  /\ Holding(last')
  /\ UNCHANGED <<jobvars, transactions>>

Tick == /\ Serving
        /\ now < MaxTime
        /\ now' = now + 1
        /\ UNCHANGED <<folders, bookmarks, events, clients, last, device, jobvars, transactions>>

TypedPhrases ==
  {SYNC_CONFIRM_PHRASES(mode) : mode \in SYNC_FIRST_MODES}
    \cup {"WRONG", "", " SYNC BOOKMARKS BOTH WAYS "}

Checkboxes == {"true", "false", "Yes", ""}

\* What can be presented for a token by one who has seen `token`
Presented(token) ==
  IF token = NoToken THEN {NoToken}
  ELSE {token, NoToken, [token EXCEPT !.timestamp = now]}
         \cup {[token EXCEPT !.payload.mode = mode] : mode \in SYNC_FIRST_MODES}

GateApply ==
  /\ Serving
  /\ \E mode \in RawModes, typed_phrase \in TypedPhrases, confirm_checked \in Checkboxes,
        rows \in GateItems, page \in Pages :
       sync_first_apply(1, Confirmed(FirstPayload("c1", mode, rows),
                                     device.held.confirmation_token,
                                     typed_phrase, confirm_checked, <<>>),
                        page)
  /\ UNCHANGED <<device, jobvars, transactions>>

GateApplyOther ==
  /\ Serving
  /\ \E u \in Users, client_id \in {"c1", "c2", ""}, mode \in SYNC_FIRST_MODES,
        confirmation_token \in Presented(device.held.confirmation_token) :
       sync_first_apply(u, Confirmed(FirstPayload(client_id, mode, <<ItemA1>>),
                                     confirmation_token, SYNC_CONFIRM_PHRASES(mode),
                                     "true", <<>>),
                        Page("alive", ""))
  /\ UNCHANGED <<device, jobvars, transactions>>

NextGate ==
  \/ GateSeed \/ GatePreflight \/ Tick \/ GateApply \/ GateApplyOther
  \/ StartEnrichment \/ Respond

SpecGate == Init /\ [][NextGate]_vars

\* ---- the three modes: pushes seed the server (a tree of two folders, also
\* a cycle, bookmarks in them, also of user 2 and soft-deleted); then the
\* device asks for one preflight and applies with the phrase and the checkbox,
\* and drops the token once the apply is answered with 200.
MaxItems == 3       \* entries of a local_bookmarks payload

LocalItems == {ItemA1, ItemA2, ItemB}

LocalTrees ==
  {<<>>,
   <<[id |-> "1", parent_id |-> NoLocal, title |-> "Work"]>>,
   <<[id |-> "2", parent_id |-> "1", title |-> "Home"],
     [id |-> "1", parent_id |-> NoLocal, title |-> "Work"]>>}

FirstSeedOps ==
  {FolderOp("create", [name |-> "Work"]),
   FolderOp("create", [name |-> "Home", parent_id |-> 1]),
   FolderOp("update", [id |-> 1, parent_id |-> 2]),
   FolderOp("delete", [id |-> 1]),
   BookmarkOp("create", [url |-> UrlA1, folder_id |-> 1]),
   BookmarkOp("create", [url |-> UrlB2, folder_id |-> 2, notes |-> "n2"]),
   BookmarkOp("delete", [id |-> 1])}

FirstSeed == /\ Serving
             /\ device.held = NoHeld
             /\ \E op \in FirstSeedOps : sync_push(1, "c1", <<op>>)
             /\ UNCHANGED <<device, jobvars, transactions>>

FirstSeedOther ==
  /\ Serving
  /\ device.held = NoHeld
  /\ sync_push(2, "c1", <<BookmarkOp("create", [url |-> UrlA1, folder_id |-> 1])>>)
  /\ UNCHANGED <<device, jobvars, transactions>>

FirstPreflight ==
  /\ Serving
  /\ device.held = NoHeld
  /\ \E mode \in SYNC_FIRST_MODES, rows \in {<<>>, <<ItemA1>>} :
       sync_first_preflight(1, FirstPayload("c1", mode, rows))
  /\ Holding(last')
  /\ UNCHANGED <<jobvars, transactions>>

FirstApply ==
  /\ Serving
  /\ device.held.confirmation_token # NoToken
  /\ \E rows \in ListsUpTo(LocalItems, MaxItems), local_folders \in LocalTrees, page \in Pages :
       sync_first_apply(1, Confirmed(FirstPayload("c1", device.held.mode, rows),
                                     device.held.confirmation_token,
                                     SYNC_CONFIRM_PHRASES(device.held.mode), "true",
                                     local_folders),
                        page)
  /\ device' = IF last'.code = 200
               THEN [device EXCEPT !.held.confirmation_token = NoToken]
               ELSE device
  /\ UNCHANGED <<jobvars, transactions>>

NextFirst ==
  \/ FirstSeed \/ FirstSeedOther \/ FirstPreflight \/ FirstApply
  \/ StartEnrichment \/ Respond

SpecFirst == Init /\ [][NextFirst]_vars

\* ------------------------------------------------------------------- claims
\* The events of `log` that a pull of `user` since `since` is asked for
Wanted(log, user, since) == {e \in Range(log) : e.user_id = user /\ e.id > since}

PullSound ==
  LET got == last.events
  IN /\ \A i \in DOMAIN got : got[i] \in Wanted(events, last.user, last.since)
     /\ \A i, j \in DOMAIN got : i < j => got[i].id < got[j].id
     /\ \A e \in Wanted(events, last.user, last.since) :
          (got # <<>> /\ e.id < got[Len(got)].id) => e \in Range(got)
     /\ last.cursor = IF got = <<>> THEN last.since ELSE got[Len(got)].id

PullComplete == Range(last.events) = Wanted(events, last.user, last.since)

\* C1 as stated: whatever the limit, a pull returns only the caller's events
\* with id > since, ascending, the lowest ids first without a gap, at most
\* `limit` of them (none for a limit below 0), and the cursor is the last
\* returned id, or `since` when nothing is returned.
C1_AnyLimit ==
  last.kind = "pull" =>
    /\ PullSound
    /\ Len(last.events) <= (IF last.limit < 0 THEN 0 ELSE last.limit)

\* C1 amended: the same for every limit >= 0, where a pull that returns fewer
\* than `limit` events has returned them all; a negative limit is no limit:
\* the pull returns every event of the caller with id > since.
C1_PullContract ==
  last.kind = "pull" =>
    /\ PullSound
    /\ last.limit >= 0 => Len(last.events) <= last.limit
    /\ (last.limit < 0 \/ Len(last.events) < last.limit) => PullComplete

\* C1 witness: a pull truncated at its limit in a log that also holds another
\* user's events.
C1_Witness ==
  /\ last.kind = "pull"
  /\ last.limit > 0
  /\ Len(last.events) = last.limit
  /\ ~PullComplete
  /\ \E e \in Range(events) : e.user_id # last.user /\ e.id > last.since

\* C2 as stated: for a pull with a positive limit, has_more is true exactly when
\* the caller still has an event with id greater than the returned cursor.
C2_HasMoreExact ==
  (last.kind = "pull" /\ last.limit > 0) =>
    (last.has_more <=> Wanted(events, last.user, last.cursor) # {})

OthersKept(d) ==
  /\ DOMAIN clients = DOMAIN last.pre.clients \cup {d}
  /\ \A o \in DOMAIN last.pre.clients : o # d => clients[o] = last.pre.clients[o]

CursorBefore(d) == IF d \in DOMAIN last.pre.clients THEN last.pre.clients[d] ELSE 0

OneOp == last.kind = "push" /\ Len(last.operations) = 1
Op == last.operations[1]
Res == last.results[1]
Answered == OneOp /\ last.status = "ok"

\* No row and no event differs from before the request.
Untouched ==
  /\ folders = last.pre.folders
  /\ bookmarks = last.pre.bookmarks
  /\ events = last.pre.events

\* The bookmark rows of `user` with normalized URL `n`, deleted or not
RowsAt(table, user, n) ==
  {b \in DOMAIN table : table[b].user_id = user /\ table[b].normalized_url = n}

CreatesBookmark ==
  /\ Answered
  /\ Op.entity_type = "bookmark"
  /\ Op.op = "create"
  /\ normalize_url(Op.data.url) # EmptyUrl

\* C4: a pushed bookmark create with a URL answers exists and changes nothing
\* when an active row of the user has its normalized URL; restores one of the
\* soft-deleted rows (markers cleared, no row inserted, no other row touched)
\* when only such rows have it; creates exactly one row otherwise; and never
\* leaves more rows with that normalized URL than before, unless there were none.
C4_CreateDedup ==
  CreatesBookmark =>
    LET n == normalize_url(Op.data.url)
        before == RowsAt(last.pre.bookmarks, last.user, n)
        active == {b \in before : last.pre.bookmarks[b].deleted_at = NoTime}
        after == RowsAt(bookmarks, last.user, n)
        Kept(except) == \A b \in DOMAIN last.pre.bookmarks \ except :
                          b \in DOMAIN bookmarks /\ bookmarks[b] = last.pre.bookmarks[b]
    IN /\ active # {} => Res.status = "exists" /\ Res.id \in active /\ Untouched
       /\ (active = {} /\ before # {}) =>
            /\ Res.status = "restored"
            /\ Res.id \in before
            /\ bookmarks[Res.id].deleted_at = NoTime
            /\ bookmarks[Res.id].deleted_by = NoId
            /\ DOMAIN bookmarks = DOMAIN last.pre.bookmarks
            /\ Kept({Res.id})
       /\ before = {} =>
            /\ Res.status = "created"
            /\ Res.id \notin DOMAIN last.pre.bookmarks
            /\ DOMAIN bookmarks = DOMAIN last.pre.bookmarks \cup {Res.id}
            /\ after = {Res.id}
            /\ Kept({})
       /\ Cardinality(after) <= Max({Cardinality(before), 1})

\* C4 witness: a create restored a soft-deleted row that was stored under
\* another spelling of the URL.
C4_Witness ==
  /\ CreatesBookmark
  /\ Res.status = "restored"
  /\ last.pre.bookmarks[Res.id].deleted_at # NoTime
  /\ last.pre.bookmarks[Res.id].url # Op.data.url

\* The target of the operation in `last` as it was before the request
TargetExists ==
  IF Op.entity_type = "folder" THEN FolderOf(last.pre, Get(Op.data, "id", NoId), last.user)
  ELSE BookmarkOf(last.pre, Get(Op.data, "id", NoId), last.user)

TargetBefore ==
  IF Op.entity_type = "folder" THEN last.pre.folders[Op.data.id]
  ELSE last.pre.bookmarks[Op.data.id]

ClientStamp == _parse_client_time(Get(Op.data, "updated_at", NoStamp))

\* An update, delete or restore of an existing entity whose server-side
\* updated_at is at or after the client's timestamp (one without a UTC offset
\* is read as UTC, as the server reads its own).
Outdated ==
  /\ OneOp
  /\ Op.op \in {"update", "move", "delete", "restore"}
  /\ TargetExists
  /\ ClientStamp # NoStamp
  /\ TargetBefore.updated_at >= ClientStamp.t

Rejected ==
  /\ last.status = "ok"
  /\ Res.status = "skipped"
  /\ Res.reason = "server_newer_or_equal"
  /\ Untouched

\* C5 as stated: an update, delete or restore of an existing bookmark or folder
\* whose server updated_at is >= the client's timestamp is answered skipped /
\* server_newer_or_equal, and no entity changes and no event is appended.
C5_RejectsOutdated == Outdated => Rejected

\* The same for the timestamps that carry a UTC offset.
RejectsOutdatedWithOffset == (Outdated /\ ClientStamp.tz = "aware") => Rejected

\* An update of an existing entity
Updating == OneOp /\ Op.op = "update" /\ TargetExists

\* The folder update asks for a name and a parent that another folder of the
\* user has: uq_folder_user_name_parent refuses the row.
Collides ==
  LET id == Op.data.id
      name == IF Has(Op.data, "name") THEN FolderNameOf(Op.data) ELSE TargetBefore.name
      parent_id == IF ~Has(Op.data, "parent_id") THEN TargetBefore.parent_id
                   ELSE IF Op.data.parent_id = id \/ ~FolderOf(last.pre, Op.data.parent_id, last.user)
                     THEN NoId
                   ELSE Op.data.parent_id
  IN /\ Op.entity_type = "folder"
     /\ parent_id # NoId
     /\ \E g \in DOMAIN last.pre.folders \ {id} :
          /\ last.pre.folders[g].user_id = last.user
          /\ last.pre.folders[g].name = name
          /\ last.pre.folders[g].parent_id = parent_id

\* The update went past the timestamp rule: the bookmark has the pushed
\* values; the folder is updated, or had them already, or the store refused
\* the row and with it the push.
Applied ==
  IF Op.entity_type = "bookmark"
  THEN /\ last.status = "ok"
       /\ Res.status = "updated"
       /\ bookmarks[Op.data.id].deleted_at = NoTime
       /\ Has(Op.data, "folder_id") => bookmarks[Op.data.id].folder_id = Op.data.folder_id
       /\ Has(Op.data, "notes") => bookmarks[Op.data.id].notes = Op.data.notes
       /\ Len(events) = Len(last.pre.events) + 1
  ELSE IF Collides THEN last.status = "error" /\ Untouched
  ELSE /\ last.status = "ok"
       /\ Res.status = "updated" \/ (Res.status = "skipped" /\ Res.reason = "no_changes")

\* C6 as stated: with T the entity's server updated_at, an update whose client
\* updated_at is >= T (T itself included) is applied, and an update is skipped
\* for its timestamp only when that is < T.
C6_EqualApplied ==
  (Updating /\ ClientStamp.tz = "aware") =>
    /\ ClientStamp.t >= TargetBefore.updated_at => Applied
    /\ Rejected => ClientStamp.t < TargetBefore.updated_at

\* C6 amended: an update whose client updated_at is > T is applied, as is one
\* with no or an unparsable updated_at; one with updated_at <= T (T itself
\* included) is skipped as server_newer_or_equal and changes nothing; one
\* whose updated_at has no UTC offset fails the whole push, which changes
\* nothing.  (Applied, for a folder whose new name and parent another folder
\* has: the store refuses the row and the push fails.)
C6_NewerApplied ==
  Updating =>
    /\ (ClientStamp.tz = "aware" /\ ClientStamp.t > TargetBefore.updated_at) => Applied
    /\ (ClientStamp.tz = "aware" /\ ClientStamp.t <= TargetBefore.updated_at) => Rejected
    /\ ClientStamp = NoStamp => Applied
    /\ ClientStamp.tz = "naive" => last.status = "error" /\ Untouched

\* C6 witness: a bookmark update stamped after the row's updated_at has changed
\* the row.
C6_Witness ==
  /\ Updating
  /\ Op.entity_type = "bookmark"
  /\ ClientStamp.tz = "aware"
  /\ ClientStamp.t > TargetBefore.updated_at
  /\ Res.status = "updated"
  /\ bookmarks[Op.data.id] # TargetBefore

ActionOf(status) ==
  CASE status = "created" -> "create"
    [] status = "updated" -> "update"
    [] status = "deleted" -> "delete"
    [] status = "restored" -> "restore"

\* The serialization of the result's entity as the tables hold it after the
\* push; of a deleted folder, as they held it before.
Serialized ==
  IF Op.entity_type = "bookmark" THEN serialize_bookmark_for_sync(Res.id, bookmarks[Res.id])
  ELSE IF Res.id \in DOMAIN folders THEN serialize_folder_for_sync(Res.id, folders[Res.id])
  ELSE serialize_folder_for_sync(Res.id, last.pre.folders[Res.id])

Appended == {events[i] : i \in (Len(last.pre.events) + 1)..Len(events)}

EventFor(payload) ==
  \E e \in Appended : /\ e.user_id = last.user
                      /\ e.entity_type = Op.entity_type
                      /\ e.entity_id = Res.id
                      /\ e.action = ActionOf(Res.status)
                      /\ e.payload = payload

Mutated == Answered /\ Res.status \in {"created", "updated", "deleted", "restored"}

\* C7 as stated: an operation answered created, updated, deleted or restored
\* has appended an event for its target with the matching action and the
\* target's serialization after the mutation as payload; one answered exists
\* or skipped has appended no event and changed no entity.
C7_EventPerMutation ==
  /\ Mutated => EventFor(Serialized)
  /\ (Answered /\ Res.status \in {"exists", "skipped"}) => Untouched

\* The same with the updated_at of a folder update's payload left open.
EventPerMutationButFolderStamp ==
  /\ Mutated =>
       IF Op.entity_type = "folder" /\ Res.status = "updated"
       THEN \E t \in 0..MaxTime : EventFor([Serialized EXCEPT !.updated_at = t])
       ELSE EventFor(Serialized)
  /\ (Answered /\ Res.status \in {"exists", "skipped"}) => Untouched

\* C9 as stated: after any sequence of folder pushes (create, update/move,
\* delete) no folder is its own ancestor.
C9_Acyclic == Acyclic(folders)

\* Creates and deletes keep an acyclic tree acyclic.
CreateDeleteKeepAcyclic ==
  (OneOp /\ Op.op # "update" /\ Acyclic(last.pre.folders)) => Acyclic(folders)

\* -------------------------------------------------- claim on the end-to-end run
\* The device's own request is the one in service at position n.
Own(n, kind) == device.at = n /\ last.kind = kind /\ last.user = 1

\* C8 as stated: after registering and pushing a folder create, the pull
\* since 0 returns exactly one event, the create of that folder; after the
\* ack of its cursor the same create pushed again is answered exists with
\* that folder and changes nothing, and the pull since the acked cursor
\* returns no event.
C8_CreateIdempotent ==
  /\ Own(2, "push") => last.status = "ok" /\ last.results[1].status = "created"
  /\ Own(3, "pull") =>
       /\ Len(last.events) = 1
       /\ last.events[1].entity_type = "folder"
       /\ last.events[1].action = "create"
       /\ last.events[1].payload.name = FolderNameOf(device.data)
       /\ device.cursor = last.events[1].id
  /\ Own(4, "ack") => clients[<<1, "A">>] = device.cursor
  /\ Own(5, "push") =>
       /\ last.status = "ok"
       /\ last.results[1].status = "exists"
       /\ last.results[1].id = events[device.cursor].entity_id
       /\ Untouched
  /\ Own(6, "pull") => last.events = <<>> /\ last.cursor = device.cursor

\* The same for the creates that name no parent.
IdempotentAtRoot == ~Has(device.data, "parent_id") => C8_CreateIdempotent

\* ------------------------------------------------ claim on the reconciliation
\* Whether the parents of local id `id` lead through rows of the list to a row
\* without parent, within `fuel` steps
RECURSIVE ChainResolves(_, _, _)
ChainResolves(local, id, fuel) ==
  IF fuel = 0 \/ ~\E i \in DOMAIN local : local[i].id = id THEN FALSE
  ELSE LET row == local[CHOOSE i \in DOMAIN local : local[i].id = id]
       IN row.parent_id = NoLocal \/ ChainResolves(local, row.parent_id, fuel - 1)

Resolves(row) == ChainResolves(last.local, row.id, Len(last.local))

\* The row is mapped to a folder of the user with its title, under the folder
\* its parent is mapped to when its chain resolves, at the root when not.
Placed(row) ==
  /\ row.id \in DOMAIN last.mapping
  /\ last.mapping[row.id] \in DOMAIN folders
  /\ folders[last.mapping[row.id]].user_id = last.user
  /\ folders[last.mapping[row.id]].name = row.title
  /\ folders[last.mapping[row.id]].parent_id =
       IF row.parent_id # NoLocal /\ Resolves(row) THEN last.mapping[row.parent_id] ELSE NoId

\* No folder there was has changed, and a folder that is its own ancestor was
\* one before.
NoCycleCreated ==
  /\ \A f \in DOMAIN last.pre.folders : f \in DOMAIN folders /\ folders[f] = last.pre.folders[f]
  /\ \A f \in DOMAIN folders :
       OwnAncestor(folders, f) => f \in DOMAIN last.pre.folders /\ OwnAncestor(last.pre.folders, f)

\* C10: for every local-folder list the reconciliation ends within as many
\* iterations as the list has folders (each iteration maps at least one), with
\* every local id mapped: a folder whose parent chain resolves lies under the
\* server folder its parent is mapped to, any other at the root; and it
\* creates no cycle in the server tree.
C10_Reconciled ==
  last.kind = "reconcile" =>
    /\ last.passes + Len(last.pending) <= Len(last.local)
    /\ last.phase = "done" => last.pending = <<>>
    /\ \A i \in DOMAIN last.local :
         last.local[i] \in Range(last.pending) \/ Placed(last.local[i])
    /\ NoCycleCreated

\* C10 witness: a finished reconciliation that took as many iterations as its
\* three folders: one was attached under its parent, met later in the list,
\* and one, whose chain does not resolve, at the root.
C10_Witness ==
  /\ last.kind = "reconcile"
  /\ last.phase = "done"
  /\ Len(last.local) = 3
  /\ last.passes = 3
  /\ \E row \in Range(last.local) : folders[last.mapping[row.id]].parent_id # NoId
  /\ \E row \in Range(last.local) : row.parent_id # NoLocal /\ ~Resolves(row)

\* A finished reconciliation of a list with the cycle 1 -> 2, 2 -> 1
CycleReconciled ==
  /\ last.kind = "reconcile"
  /\ last.phase = "done"
  /\ \E a, b \in Range(last.local) : a.parent_id = b.id /\ b.parent_id = a.id

\* ------------------------------------------------- claims on the first sync
\* The request in service is an apply that went through in `mode`.
Applied200(mode) ==
  /\ last.kind = "apply"
  /\ last.code = 200
  /\ last.mode = mode
  /\ last.status # "no_op"

DeletesFolder ==
  /\ Answered
  /\ Op.entity_type = "folder"
  /\ Op.op = "delete"
  /\ Res.status = "deleted"

Below(table, g, f) == Climbs(table, g, f, Cardinality(DOMAIN table))

\* The events that the request in service appended after the first `from`
NewEvents(from) == SubSeq(events, from + 1, Len(events))

\* The positions in `log` of the delete events of folder f
DeletesOf(log, f) ==
  {i \in DOMAIN log : /\ log[i].entity_type = "folder"
                      /\ log[i].action = "delete"
                      /\ log[i].entity_id = f}

\* One delete event per folder of `removed` and none for another folder, the
\* event of a folder after those of the folders below it in `before`.
BottomUp(before, removed, log) ==
  /\ \A f \in removed : Cardinality(DeletesOf(log, f)) = 1
  /\ \A f \in DOMAIN before \ removed : DeletesOf(log, f) = {}
  /\ \A f \in removed, g \in removed :
       Below(before, g, f) => \A i \in DeletesOf(log, g), j \in DeletesOf(log, f) : i < j

\* The bookmark rows of `before` in a folder of `removed` are still there,
\* in no folder, deleted or active as they were.
OutOfFolder(before, removed) ==
  \A b \in DOMAIN before :
    before[b].folder_id \in removed =>
      /\ b \in DOMAIN bookmarks
      /\ bookmarks[b].folder_id = NoId
      /\ bookmarks[b].deleted_at = before[b].deleted_at

Subtree(table, f) == {f} \cup {g \in DOMAIN table : Below(table, g, f)}

OwnFolders(table, user) == {f \in DOMAIN table : table[f].user_id = user}

\* C11: a folder delete through sync, by a push delete or by the tree deletion
\* of a replace-server apply, removes the whole subtree bottom-up: one delete
\* event per removed folder, after the delete events of the folders below it,
\* and every bookmark that was in the subtree is still there with no folder
\* and deleted or active as the deletion found it.
C11_BottomUp ==
  /\ DeletesFolder =>
       /\ DOMAIN folders = DOMAIN last.pre.folders \ Subtree(last.pre.folders, Op.data.id)
       /\ BottomUp(last.pre.folders, Subtree(last.pre.folders, Op.data.id),
                   NewEvents(Len(last.pre.events)))
       /\ OutOfFolder(last.pre.bookmarks, Subtree(last.pre.folders, Op.data.id))
  /\ Applied200(SYNC_MODE_REPLACE_SERVER) =>
       /\ BottomUp(last.pre.folders, OwnFolders(last.pre.folders, last.user),
                   NewEvents(Len(last.cleared.events)))
       /\ OutOfFolder(last.cleared.bookmarks, OwnFolders(last.pre.folders, last.user))
       /\ \A b \in DOMAIN last.pre.bookmarks :
            last.pre.bookmarks[b].folder_id \in OwnFolders(last.pre.folders, last.user) =>
              b \in DOMAIN bookmarks /\ bookmarks[b].folder_id = NoId

\* A replace-server apply has removed a folder with a folder below it, with a
\* bookmark of another user in one of them.
C11_Witness ==
  /\ Applied200(SYNC_MODE_REPLACE_SERVER)
  /\ \E f \in OwnFolders(last.pre.folders, last.user),
        g \in OwnFolders(last.pre.folders, last.user) : Below(last.pre.folders, g, f)
  /\ \E b \in DOMAIN last.cleared.bookmarks :
       /\ last.cleared.bookmarks[b].folder_id \in OwnFolders(last.pre.folders, last.user)
       /\ last.cleared.bookmarks[b].user_id # last.user

\* A push delete has removed a folder with a folder below it; another has
\* removed a folder with a bookmark in it.
PushDeletedSubtree ==
  DeletesFolder /\ Cardinality(Subtree(last.pre.folders, Op.data.id)) > 1

PushDeletedWithBookmark ==
  /\ DeletesFolder
  /\ \E b \in DOMAIN last.pre.bookmarks : last.pre.bookmarks[b].folder_id = Op.data.id

\* ---- the gates
\* The apply in service came with a client id, a mode and a token, and with
\* the phrase of its mode and the checkbox checked.
PastPhrase ==
  /\ last.kind = "apply"
  /\ last.client_id # ""
  /\ last.mode # ""
  /\ last.confirmation_token # NoToken
  /\ last.typed_phrase = SYNC_CONFIRM_PHRASES(last.mode)
  /\ last.confirm_checked

TokenRefused ==
  /\ last.code = 400
  /\ last.error = "invalid or expired confirmation token"
  /\ Untouched

\* The token that the preflight issued to the device
Issued == device.held.confirmation_token

\* C12: the token that a preflight issued for (user, client, mode) is accepted
\* by an apply with the right phrase and checkbox exactly when it is presented
\* unaltered by the same user for the same client and mode and not later than
\* its TTL after it was issued; it is refused for another mode, another client,
\* another user and after the TTL, and using it does not use it up.
C12_TokenBound ==
  PastPhrase =>
    (TokenRefused <=>
       ~(/\ last.confirmation_token = Issued
         /\ Issued.payload.user_id = last.user
         /\ Issued.payload.client_id = last.client_id
         /\ Issued.payload.mode = last.mode
         /\ last.at - Issued.payload.issued_at <= SYNC_CONFIRM_TTL_SECONDS))

\* An apply is accepted with the token by which an earlier apply was accepted:
\* that one created, after the token was issued, a bookmark with the title of
\* the local entry (a push gives none).
C12_Witness ==
  /\ PastPhrase
  /\ last.code = 200
  /\ last.confirmation_token = Issued
  /\ \E b \in DOMAIN last.pre.bookmarks :
       /\ last.pre.bookmarks[b].title = "A"
       /\ last.pre.bookmarks[b].updated_at > Issued.payload.issued_at

\* The refusals of the device's own token
RefusedTheToken == PastPhrase /\ TokenRefused /\ last.confirmation_token = Issued

RefusedForMode ==
  /\ RefusedTheToken
  /\ Issued.payload.mode # last.mode
  /\ Issued.payload.user_id = last.user
  /\ Issued.payload.client_id = last.client_id
  /\ last.at - Issued.payload.issued_at <= SYNC_CONFIRM_TTL_SECONDS

RefusedForClient ==
  /\ RefusedTheToken
  /\ Issued.payload.mode = last.mode
  /\ Issued.payload.user_id = last.user
  /\ Issued.payload.client_id # last.client_id
  /\ last.at - Issued.payload.issued_at <= SYNC_CONFIRM_TTL_SECONDS

RefusedForUser ==
  /\ RefusedTheToken
  /\ Issued.payload.mode = last.mode
  /\ Issued.payload.user_id # last.user
  /\ Issued.payload.client_id = last.client_id
  /\ last.at - Issued.payload.issued_at <= SYNC_CONFIRM_TTL_SECONDS

RefusedExpired ==
  /\ RefusedTheToken
  /\ Issued.payload.mode = last.mode
  /\ Issued.payload.user_id = last.user
  /\ Issued.payload.client_id = last.client_id
  /\ last.at - Issued.payload.issued_at > SYNC_CONFIRM_TTL_SECONDS

\* The token of the apply in service is the one issued to its user, client and
\* mode, and its TTL has not elapsed.
TokenGood ==
  /\ Issued # NoToken
  /\ last.confirmation_token = Issued
  /\ Issued.payload.user_id = last.user
  /\ Issued.payload.client_id = last.client_id
  /\ Issued.payload.mode = last.mode
  /\ last.at - Issued.payload.issued_at <= SYNC_CONFIRM_TTL_SECONDS

\* C13: sync_first_apply changes no bookmark, folder, event or client row and
\* answers 400 unless the typed phrase is the phrase of the requested mode, the
\* checkbox is checked and the token verifies; a wrong phrase or an unchecked
\* box is refused whatever the token.
C13_ThreeGates ==
  (last.kind = "apply" /\ ~(PastPhrase /\ TokenGood)) =>
    /\ last.code = 400
    /\ Untouched
    /\ clients = last.pre.clients

\* A replace-server apply with local bookmarks and the device's valid token,
\* the box checked and the phrase of another mode, is refused.
C13_Witness ==
  /\ last.kind = "apply"
  /\ last.mode = SYNC_MODE_REPLACE_SERVER
  /\ last.local_bookmarks # <<>>
  /\ TokenGood
  /\ last.confirm_checked
  /\ last.typed_phrase = SYNC_CONFIRM_PHRASES(SYNC_MODE_TWO_WAY)
  /\ last.code = 400
  /\ last.pre.bookmarks # <<>>

\* The same with the right phrase and the box not checked
RefusedUnchecked ==
  /\ last.kind = "apply"
  /\ TokenGood
  /\ ~last.confirm_checked
  /\ last.typed_phrase = SYNC_CONFIRM_PHRASES(last.mode)
  /\ last.code = 400

\* The response of the request in service
Answer == [code |-> last.code, error |-> last.error]

\* The apply in service has what is required and fails the phrase or the box
FailsPhrase ==
  /\ last.kind = "apply"
  /\ last.client_id # ""
  /\ last.mode # ""
  /\ last.confirmation_token # NoToken
  /\ ~(last.typed_phrase = SYNC_CONFIRM_PHRASES(last.mode) /\ last.confirm_checked)

\* It passes them and fails the token
FailsToken == PastPhrase /\ ~TokenGood

\* What sync_first_apply answers to a wrong phrase or an unchecked box
PhraseAnswer == [code |-> 400, error |-> "destructive confirmation failed"]

PhraseRefusedAlike == FailsPhrase => Answer = PhraseAnswer

\* C14 as stated: the refusal of sync_first_apply has the same status and the
\* same error wording whether the phrase, the checkbox or the token fails:
\* every such refusal is the one given for the phrase.
C14_SameRefusal == (FailsPhrase \/ FailsToken) => Answer = PhraseAnswer

\* The two refusals have the status in common.
RefusedWith400 == (FailsPhrase \/ FailsToken) => last.code = 400

\* ---- preflight and no-op
Preflight200(mode) ==
  /\ last.kind = "preflight"
  /\ last.code = 200
  /\ last.mode = mode

\* The bookmarks of `user` that were not deleted when the request came
ActiveBefore(user) ==
  {b \in DOMAIN last.pre.bookmarks : /\ last.pre.bookmarks[b].user_id = user
                                     /\ last.pre.bookmarks[b].deleted_at = NoTime}

DeletedBefore(user) ==
  {b \in DOMAIN last.pre.bookmarks : /\ last.pre.bookmarks[b].user_id = user
                                     /\ last.pre.bookmarks[b].deleted_at # NoTime}

\* C15: the preflight of replace_local_with_server reports would_noop, with
\* the reason server_empty, exactly when the user has no bookmark that is not
\* deleted, whatever the local count; soft-deleted rows do not count.
C15_ServerEmpty ==
  Preflight200(SYNC_MODE_REPLACE_LOCAL) =>
    /\ last.preflight.would_noop <=> ActiveBefore(last.user) = {}
    /\ last.preflight.would_noop <=> last.preflight.no_op_reason = "server_empty"
    /\ last.preflight.local_bookmark_count = Len(last.local_bookmarks)

\* would_noop with local bookmarks and a soft-deleted server bookmark
C15_Witness ==
  /\ Preflight200(SYNC_MODE_REPLACE_LOCAL)
  /\ last.preflight.would_noop
  /\ last.local_bookmarks # <<>>
  /\ DeletedBefore(last.user) # {}

\* no would_noop with no local bookmark
NotEmptyReached ==
  /\ Preflight200(SYNC_MODE_REPLACE_LOCAL)
  /\ ~last.preflight.would_noop
  /\ last.local_bookmarks = <<>>

NoOpAnswer ==
  /\ last.kind = "apply"
  /\ last.code = 200
  /\ last.status = "no_op"

\* What a preflight answers to the apply in service in the state it came in
PreflightBefore ==
  _build_sync_preflight_payload(Session(last.pre), last.mode, last.local_bookmarks, last.user)

\* C16: an apply that answers no_op changes no bookmark, no folder and no
\* event, and an apply that has passed the gates answers no_op, with the
\* reason, exactly when a preflight on the same state and input reports
\* would_noop: replace_local_with_server with no active server bookmark
\* (server_empty), replace_server_with_local with no local bookmark
\* (local_empty).
C16_NoOp ==
  /\ NoOpAnswer => Untouched
  /\ (PastPhrase /\ TokenGood) =>
       /\ NoOpAnswer <=> PreflightBefore.would_noop
       /\ NoOpAnswer => last.reason = PreflightBefore.no_op_reason
       /\ NoOpAnswer <=>
            \/ last.mode = SYNC_MODE_REPLACE_LOCAL /\ ActiveBefore(last.user) = {}
            \/ last.mode = SYNC_MODE_REPLACE_SERVER /\ last.local_bookmarks = <<>>

\* local_empty with active server bookmarks, after a payload whose only entry
\* has no URL, although the token was issued when the server had none
C16_Witness ==
  /\ NoOpAnswer
  /\ TokenGood
  /\ last.reason = "local_empty"
  /\ ActiveBefore(last.user) # {}
  /\ Issued.payload.server_count = 0

ServerEmptyReached ==
  /\ NoOpAnswer
  /\ last.reason = "server_empty"
  /\ last.local_bookmarks # <<>>
  /\ DeletedBefore(last.user) # {}

\* ---- the three modes
\* The positions in `log` of the events of one action on one entity
EventsOf(log, entity_type, entity_id, action) ==
  {i \in DOMAIN log : /\ log[i].entity_type = entity_type
                      /\ log[i].entity_id = entity_id
                      /\ log[i].action = action}

ActiveNow(user) ==
  {b \in DOMAIN bookmarks : bookmarks[b].user_id = user /\ bookmarks[b].deleted_at = NoTime}

\* Every bookmark of `user` that was active is soft-deleted, with one delete
\* event in `log`; the others have none.
SweptBookmarks(user, log) ==
  /\ \A b \in ActiveBefore(user) :
       /\ bookmarks[b].deleted_at # NoTime
       /\ Cardinality(EventsOf(log, "bookmark", b, "delete")) = 1
  /\ \A b \in DOMAIN last.pre.bookmarks \ ActiveBefore(user) :
       /\ bookmarks[b].deleted_at = last.pre.bookmarks[b].deleted_at
       /\ EventsOf(log, "bookmark", b, "delete") = {}

\* Every folder that `user` had is deleted in `log`, and a folder that the
\* user has now was created in `log` after all those deletions (the store gives
\* the ids of deleted rows again); no row that was there refers to a removed
\* folder.
SweptFolders(user, log) ==
  /\ \A f \in OwnFolders(last.pre.folders, user) : Cardinality(DeletesOf(log, f)) = 1
  /\ \A f \in OwnFolders(folders, user) :
       \E i \in EventsOf(log, "folder", f, "create") :
         \A g \in DOMAIN last.pre.folders : \A j \in DeletesOf(log, g) : j < i
  /\ \A b \in DOMAIN last.pre.bookmarks :
       (\/ last.pre.bookmarks[b].user_id = user
        \/ last.pre.bookmarks[b].folder_id \in OwnFolders(last.pre.folders, user))
         => bookmarks[b].folder_id = NoId

\* The active bookmarks of `user` are the rows `made`, new ones, one for each
\* entry of `local_bookmarks` in order, each with one create event in `log`.
OnePerEntry(user, log, local_bookmarks, made) ==
  /\ Len(made) = Len(local_bookmarks)
  /\ \A i \in DOMAIN made, j \in DOMAIN made : i # j => made[i] # made[j]
  /\ ActiveNow(user) = Range(made)
  /\ \A i \in DOMAIN made :
       /\ made[i] \notin DOMAIN last.pre.bookmarks
       /\ bookmarks[made[i]].url = local_bookmarks[i].url
       /\ bookmarks[made[i]].title = local_bookmarks[i].title
       /\ Cardinality(EventsOf(log, "bookmark", made[i], "create")) = 1

\* C17: after a replace_server_with_local apply with local bookmarks, every
\* bookmark that was active is soft-deleted with exactly one delete event of
\* the apply, no folder from before remains and no bookmark row refers to a
\* removed folder, and the user's active bookmarks are exactly the rows the
\* apply created, one per local entry, each with a create event.
C17_Replaced ==
  Applied200(SYNC_MODE_REPLACE_SERVER) =>
    /\ last.local_bookmarks # <<>>
    /\ SweptBookmarks(last.user, NewEvents(Len(last.pre.events)))
    /\ SweptFolders(last.user, NewEvents(Len(last.pre.events)))
    /\ OnePerEntry(last.user, NewEvents(Len(last.pre.events)), last.local_bookmarks,
                   last.background_enrichment_ids)

\* A replace with two local entries or more on a server with an active
\* bookmark in a folder; the new tree has a folder with the id of an old one.
C17_Witness ==
  /\ Applied200(SYNC_MODE_REPLACE_SERVER)
  /\ Len(last.local_bookmarks) > 1
  /\ \E b \in ActiveBefore(last.user) : last.pre.bookmarks[b].folder_id # NoId
  /\ OwnFolders(folders, last.user) \cap OwnFolders(last.pre.folders, last.user) # {}

\* The rows that the apply in service created
Made == last.background_enrichment_ids

\* Nothing was fetched for the rows `made`: no link status, and the notes of
\* the local entries.
Unfetched(local_bookmarks, made) ==
  \A i \in DOMAIN made :
    /\ bookmarks[made[i]].link_status = NoStatus
    /\ bookmarks[made[i]].notes = local_bookmarks[i].notes

\* What the apply in service has committed is in the store.
InStore ==
  /\ ActiveNow(last.user) = Range(Made)
  /\ LatestCursor(events, last.user) = last.cursor
  /\ clients[<<last.user, last.client_id>>] = last.cursor

\* C18: a replace_server_with_local apply fetches no content on the request
\* path: the bookmarks are created without content, the enrichment worker is
\* started only once the apply is committed, with exactly the ids of the
\* bookmarks the apply created, and when starting it fails the apply stays
\* committed and answered with 200.
C18_Deferred ==
  Applied200(SYNC_MODE_REPLACE_SERVER) =>
    /\ Unfetched(last.local_bookmarks, Made)
    /\ InStore
    /\ last.phase = "committed" => last.worker = NoWorker /\ ~last.warned
    /\ last.phase = "done" =>
         /\ last.warned <=> last.worker = NoWorker
         /\ ~last.warned => last.worker = [user_id |-> last.user, bookmark_ids |-> Made]

\* The worker starts in the step after the commit and changes no row.
StartsAfterCommit ==
  [][(last'.kind = "apply" /\ last.kind = "apply" /\ last'.worker # last.worker) =>
       /\ last.phase = "committed"
       /\ UNCHANGED <<folders, bookmarks, events, clients>>]_vars

\* Starting the worker has failed after a replace that created two bookmarks or
\* more, one of them from an entry with notes.
C18_Witness ==
  /\ Applied200(SYNC_MODE_REPLACE_SERVER)
  /\ last.phase = "done"
  /\ last.warned
  /\ Len(Made) > 1
  /\ \E i \in DOMAIN Made : last.local_bookmarks[i].notes # NoNotes

WorkerStarted ==
  /\ Applied200(SYNC_MODE_REPLACE_SERVER)
  /\ last.worker # NoWorker
  /\ Len(last.worker.bookmark_ids) > 1

\* The rows that the request in service added
NewRows == DOMAIN bookmarks \ DOMAIN last.pre.bookmarks

\* How many local entries, active server rows before and new rows have the
\* normalized URL n
LocalAt(n) ==
  Cardinality({i \in DOMAIN last.local_bookmarks : last.local_bookmarks[i].normalized_url = n})

ServerAt(n) ==
  Cardinality({b \in ActiveBefore(last.user) : last.pre.bookmarks[b].normalized_url = n})

NewAt(n) == Cardinality({b \in NewRows : bookmarks[b].normalized_url = n})

LocalUrls == {last.local_bookmarks[i].normalized_url : i \in DOMAIN last.local_bookmarks}

\* The mapping of the response sends each local id to a row with the URL of an
\* entry of that id, a new one or one that was active.
MapsAlike(mapping) ==
  \A k \in DOMAIN mapping :
    /\ mapping[k] \in NewRows \cup ActiveBefore(last.user)
    /\ \E i \in DOMAIN last.local_bookmarks :
         /\ last.local_bookmarks[i].id = k
         /\ last.local_bookmarks[i].normalized_url = bookmarks[mapping[k]].normalized_url

\* C19: the two-way merge pairs local entries and active server bookmarks one
\* to one by normalized URL: of the entries of one URL as many are paired as
\* the server has unused rows of that URL and the others are created, a server
\* bookmark is matched by at most one entry, and different local ids never map
\* to the same server id; local {A, A, B} against server {A} gives one match
\* and two creations.
C19_OneToOne ==
  Applied200(SYNC_MODE_TWO_WAY) =>
    /\ \A n \in LocalUrls :
         NewAt(n) = IF LocalAt(n) > ServerAt(n) THEN LocalAt(n) - ServerAt(n) ELSE 0
    /\ \A b \in NewRows : /\ bookmarks[b].normalized_url \in LocalUrls
                          /\ bookmarks[b].user_id = last.user
    /\ last.counts.server_created = Cardinality(NewRows)
    /\ MapsAlike(last.local_bookmark_id_to_server_id)
    /\ \A k \in DOMAIN last.local_bookmark_id_to_server_id,
          l \in DOMAIN last.local_bookmark_id_to_server_id :
         k # l => last.local_bookmark_id_to_server_id[k] # last.local_bookmark_id_to_server_id[l]

\* Local {A, A, B} with three ids against a server with one active A: one
\* match, two creations.
C19_Witness ==
  /\ Applied200(SYNC_MODE_TWO_WAY)
  /\ Len(last.local_bookmarks) = 3
  /\ Cardinality(DOMAIN last.local_bookmark_id_to_server_id) = 3
  /\ Cardinality(LocalUrls) = 2
  /\ Cardinality(ActiveBefore(last.user)) = 1
  /\ \E n \in LocalUrls : LocalAt(n) = 2 /\ ServerAt(n) = 1
  /\ last.counts.server_created = 2
  /\ Cardinality(Range(last.local_bookmark_id_to_server_id) \cap ActiveBefore(last.user)) = 1

\* C20: a two_way_merge apply deletes and modifies no server bookmark: every
\* bookmark that was there is as it was, active ones still active with the same
\* title, notes, tags and folder, and every event the apply logged is the
\* create event of a folder or bookmark it added.
C20_ServerKept ==
  Applied200(SYNC_MODE_TWO_WAY) =>
    /\ \A b \in DOMAIN last.pre.bookmarks :
         /\ b \in DOMAIN bookmarks
         /\ bookmarks[b] = last.pre.bookmarks[b]
    /\ \A i \in DOMAIN NewEvents(Len(last.pre.events)) :
         /\ NewEvents(Len(last.pre.events))[i].action = "create"
         /\ NewEvents(Len(last.pre.events))[i].entity_type = "bookmark"
              => NewEvents(Len(last.pre.events))[i].entity_id \in NewRows
         /\ NewEvents(Len(last.pre.events))[i].entity_type = "folder"
              => NewEvents(Len(last.pre.events))[i].entity_id \notin DOMAIN last.pre.folders

\* A merge has matched a server bookmark that has notes and a folder with a
\* local entry of other notes and another folder, and has created a bookmark.
C20_Witness ==
  /\ Applied200(SYNC_MODE_TWO_WAY)
  /\ NewRows # {}
  /\ \E k \in DOMAIN last.local_bookmark_id_to_server_id :
       \E i \in DOMAIN last.local_bookmarks :
         /\ last.local_bookmarks[i].id = k
         /\ last.local_bookmark_id_to_server_id[k] \in ActiveBefore(last.user)
         /\ bookmarks[last.local_bookmark_id_to_server_id[k]].notes # NoNotes
         /\ bookmarks[last.local_bookmark_id_to_server_id[k]].folder_id # NoId
         /\ last.local_bookmarks[i].notes # bookmarks[last.local_bookmark_id_to_server_id[k]].notes

\* ---- the estimate of the merge
\* The sum over the normalized URLs of `urls` of the smaller of the local and
\* the active server count
RECURSIVE SumOfMin(_)
SumOfMin(urls) ==
  IF urls = {} THEN 0
  ELSE (IF LocalAt(CHOOSE n \in urls : TRUE) <= ServerAt(CHOOSE n \in urls : TRUE)
        THEN LocalAt(CHOOSE n \in urls : TRUE) ELSE ServerAt(CHOOSE n \in urls : TRUE))
       + SumOfMin(urls \ {CHOOSE n \in urls : TRUE})

\* `impact` is the multiset intersection of the local entries of the request
\* in service and the bookmarks that were active when it came.
Intersected(impact) ==
  /\ impact.matched = SumOfMin(LocalUrls)
  /\ impact.server_additions = Len(last.local_bookmarks) - impact.matched
  /\ impact.local_additions = Cardinality(ActiveBefore(last.user)) - impact.matched
  /\ impact.local_deletions = 0
  /\ impact.server_deletions = 0

\* C21: the preflight of two_way_merge estimates by the multiset intersection
\* over normalized URLs (matched is the sum over the URLs of the smaller count,
\* server_additions the local count minus it, local_additions the server count
\* minus it) and changes no bookmark, folder or event; and an apply creates as
\* many bookmarks as the preflight of the same local set in the same state
\* estimates as server_additions.
C21_Estimate ==
  /\ Preflight200(SYNC_MODE_TWO_WAY) =>
       /\ Untouched
       /\ last.preflight = PreflightBefore
       /\ Intersected(last.preflight.impact)
  /\ Applied200(SYNC_MODE_TWO_WAY) =>
       /\ Intersected(PreflightBefore.impact)
       /\ PreflightBefore.impact.server_additions = Cardinality(NewRows)
       /\ PreflightBefore.impact.server_additions = last.counts.server_created

\* An apply with two local entries of one URL on a server that has that URL
\* and another: one matched, one to create, one for the device to add.
C21_Witness ==
  /\ Applied200(SYNC_MODE_TWO_WAY)
  /\ \E n \in LocalUrls : LocalAt(n) = 2 /\ ServerAt(n) = 1
  /\ PreflightBefore.impact.matched = 1
  /\ PreflightBefore.impact.server_additions = 1
  /\ PreflightBefore.impact.local_additions = 1
  /\ Cardinality(NewRows) = 1

\* A preflight of a merge that finds a match
EstimateReached ==
  /\ Preflight200(SYNC_MODE_TWO_WAY)
  /\ last.preflight.impact.matched = 1
  /\ last.preflight.impact.local_additions > 0

\* ------------------------------------------------ claims on the event log
\* The position in the log of the latest event of `user` on one entity, 0 if
\* the log has none
LatestOf(user, entity_type, entity_id) ==
  Max({0} \cup {i \in DOMAIN events : /\ events[i].user_id = user
                                      /\ events[i].entity_type = entity_type
                                      /\ events[i].entity_id = entity_id})

\* The payload of the latest event of a bookmark says what the row says
BookmarkAsLogged(b) ==
  LatestOf(bookmarks[b].user_id, "bookmark", b) # 0 =>
    /\ events[LatestOf(bookmarks[b].user_id, "bookmark", b)].payload.folder_id
         = bookmarks[b].folder_id
    /\ events[LatestOf(bookmarks[b].user_id, "bookmark", b)].payload.deleted_at
         = bookmarks[b].deleted_at
    /\ events[LatestOf(bookmarks[b].user_id, "bookmark", b)].payload.notes
         = bookmarks[b].notes

\* The latest event of a folder that exists is not its deletion and carries
\* its parent
FolderAsLogged(f) ==
  LatestOf(folders[f].user_id, "folder", f) # 0 =>
    /\ events[LatestOf(folders[f].user_id, "folder", f)].action # "delete"
    /\ events[LatestOf(folders[f].user_id, "folder", f)].payload.parent_id
         = folders[f].parent_id

\* C30: the event log is sufficient to reconstruct the server state: for
\* every bookmark and folder the payload of its most recent event agrees with
\* the entity's current state (deleted or active, folder or parent reference,
\* notes), so a client that applies the pulled events in id order ends with
\* the bookmarks and folders of the server.
C30_LogSuffices ==
  /\ \A b \in DOMAIN bookmarks : BookmarkAsLogged(b)
  /\ \A f \in DOMAIN folders : FolderAsLogged(f)

\* ------------------------------------------- claims on ownership and URLs
\* A folder reference is empty or names a folder that exists and is `user`'s
RefersToOwn(user, folder_id) ==
  \/ folder_id = NoId
  \/ /\ folder_id \in DOMAIN folders
     /\ folders[folder_id].user_id = user

\* C28: after any sequence of pushes by any users every bookmark's folder_id
\* and every folder's parent_id is null or the id of an existing folder of the
\* same user, and a push neither modifies nor logs an event for an entity
\* that another user owns.
C28_OwnFoldersOnly ==
  /\ \A b \in DOMAIN bookmarks : RefersToOwn(bookmarks[b].user_id, bookmarks[b].folder_id)
  /\ \A f \in DOMAIN folders : RefersToOwn(folders[f].user_id, folders[f].parent_id)
  /\ last.kind = "push" =>
       /\ \A b \in DOMAIN last.pre.bookmarks :
            last.pre.bookmarks[b].user_id # last.user =>
              /\ b \in DOMAIN bookmarks
              /\ bookmarks[b] = last.pre.bookmarks[b]
       /\ \A f \in DOMAIN last.pre.folders :
            last.pre.folders[f].user_id # last.user =>
              /\ f \in DOMAIN folders
              /\ folders[f] = last.pre.folders[f]

\* C29: starting from a state where no two active bookmarks of a user share a
\* normalized URL, the same holds after any sequence of pushes (create, update
\* with a URL change, delete, restore) and of imports: a duplicate is skipped
\* or restored, never a second active row.
C29_OneActivePerUrl ==
  \A a \in DOMAIN bookmarks, b \in DOMAIN bookmarks :
    (/\ a # b
     /\ bookmarks[a].user_id = bookmarks[b].user_id
     /\ bookmarks[a].deleted_at = NoTime
     /\ bookmarks[b].deleted_at = NoTime)
      => bookmarks[a].normalized_url # bookmarks[b].normalized_url

\* ========================================================== background jobs
\* app/services/dead_link_jobs.py and app/services/import_jobs.py.  A job is a
\* row, the thread that runs it and an in-memory snapshot.  A step of a thread
\* is what it does between two points at which another thread can see or
\* change what they share: a commit, or a section under _RUNTIME_LOCK.  Python
\* None is NoMessage ("") for a message and NoError ("") for an error; clock
\* readings of the snapshots (started_at, finished_at) are left out but for
\* whether finished_at is set.
MaxStops == 2       \* stop requests per behaviour
MaxEntries == 2     \* bookmarks in an uploaded file

NoMessage == ""
NoError == ""

LINK_STATUS_ALIVE == "alive"
LINK_STATUS_NOT_FOUND == "not_found"
LINK_STATUS_UNREACHABLE == "unreachable"
PROBLEMATIC_RESULTS ==
  {LINK_STATUS_NOT_FOUND, "404", "dns_error", LINK_STATUS_UNREACHABLE, "server_error", "timeout"}

Terminal == {"done", "failed", "stopped"}

ExtractedContent(status, text, error) == [status |-> status, text |-> text, error |-> error]

\* What future.result() does: it returns what fetch_and_extract returned, or
\* raises what the call raised.
Returned(content) == [raised |-> FALSE, content |-> content, message |-> ""]
Raised(message) ==
  [raised |-> TRUE, content |-> ExtractedContent("", "", NoError), message |-> message]

Fetches ==
  {Returned(ExtractedContent(LINK_STATUS_ALIVE, "page text", NoError)),
   Returned(ExtractedContent(LINK_STATUS_NOT_FOUND, "", NoError)),
   Returned(ExtractedContent(LINK_STATUS_UNREACHABLE, "", "connection refused")),
   Raised("boom")}

_resolve_future(future) ==
  IF future.raised THEN ExtractedContent(LINK_STATUS_UNREACHABLE, "", future.message)
  ELSE future.content

\* int((done / total) * 100) if total else 100; exact for the totals of the model
Percent(done, total) == IF total # 0 THEN (done * 100) \div total ELSE 100

\* ---------------------------------------------------------- dead-link jobs
DeadLinkJob(user_id) ==
  [user_id |-> user_id, status |-> "pending", progress |-> 0, total_targets |-> 0,
   total_checked |-> 0, total_alive |-> 0, total_problematic |-> 0, total_errors |-> 0,
   error_message |-> NoMessage]

_stop_requested(job_id) == job_id \in _STOP_REQUESTED

_runtime_update(state, job_id, updates) ==
  Put(state, job_id, updates @@ Get(state, job_id, <<>>))

\* The targets in the order of the query; no URL of the model is internal.
_load_targets(user_id, bookmark_ids) ==
  Ascending({b \in DOMAIN bookmarks :
               /\ bookmarks[b].user_id = user_id
               /\ bookmarks[b].deleted_at = NoTime
               /\ bookmark_ids # <<>> => b \in Range(bookmark_ids)})

\* A faulty variant: a finished job is always done
FinishAsDone(row, status, error_message) ==
  [row EXCEPT !.status = "done",
              !.progress = Percent(row.total_checked, row.total_targets),
              !.error_message = error_message]

\* A faulty variant: the progress starts again
FinishFromZero(row, status, error_message) ==
  [row EXCEPT !.status = status, !.progress = 0, !.error_message = error_message]

\* The row as _finish_job commits it
_finish_job(row, status, error_message) ==
  [row EXCEPT !.status = status,
              !.progress = Percent(row.total_checked, row.total_targets),
              !.error_message = error_message]

\* The row as _persist_progress commits it
_persist_progress(row, checked, total, alive, problematic, errors) ==
  [row EXCEPT !.progress = Percent(checked, total), !.total_checked = checked,
              !.total_alive = alive, !.total_problematic = problematic,
              !.total_errors = errors]

\* The bookmark row as the coordinator stores a result in it: last_checked_at
\* is new each time, so the UPDATE is always emitted.
StoredCheck(row, extracted, t) ==
  [row EXCEPT !.link_status = extracted.status,
              !.notes = IF Strip(extracted.text) # "" THEN Strip(extracted.text)
                        ELSE IF Lower(Strip(@)) = "none" THEN NoNotes ELSE @,
              !.updated_at = t]

\* checked, alive or problematic, and errors, after one more result
Tally(c, extracted) ==
  [c EXCEPT !.checked = @ + 1,
            !.problematic = IF extracted.status \in PROBLEMATIC_RESULTS THEN @ + 1 ELSE @,
            !.alive = IF extracted.status \in PROBLEMATIC_RESULTS THEN @ ELSE @ + 1,
            !.errors = IF extracted.error # NoError THEN @ + 1 ELSE @,
            !.seen = Append(@, extracted)]

Drop(map, key) == [k \in DOMAIN map \ {key} |-> map[k]]

NotYet == Returned(ExtractedContent("", "", NoError))

\* The result the loop counts when storing the fetched one has raised
StoreFailed == ExtractedContent(LINK_STATUS_UNREACHABLE, "", "store failed")

\* The locals of _run_dead_link_job as the thread starts; `seen` keeps the
\* results it has counted and `raised` whether the routine itself has raised.
Coordinating(job_id, user_id, bookmark_ids) ==
  [pc |-> "start", job_id |-> job_id, user_id |-> user_id, bookmark_ids |-> bookmark_ids,
   targets |-> <<>>, futures |-> <<>>, handled |-> {}, current |-> 0,
   checked |-> 0, alive |-> 0, problematic |-> 0, errors |-> 0, stop_job |-> FALSE,
   status |-> "", error_message |-> NoMessage, raised |-> FALSE, seen |-> <<>>]

Finishing(c, status, error_message) ==
  [c EXCEPT !.pc = "finish", !.status = status, !.error_message = error_message]

\* The web routes that create a job and start its thread; a behaviour of the
\* model runs one job.
dead_links_recheck ==
  /\ coordinator = NoThread
  /\ importer = NoThread
  /\ Serving
  /\ \E bookmark_ids \in {<<>>, <<1>>} :
       /\ dead_link_jobs' = Put(dead_link_jobs, NextId(dead_link_jobs), DeadLinkJob(1))
       /\ coordinator' = Coordinating(NextId(dead_link_jobs), 1, bookmark_ids)
  /\ UNCHANGED <<folders, bookmarks, events, clients, now, last, device, transactions>>
  /\ UNCHANGED <<import_jobs, _STOP_REQUESTED, _RUNTIME_STATE, importer, stop_request>>

\* _run_dead_link_job up to the commit of `running`: a job asked to stop
\* before it starts is finished as stopped.
RunStart ==
  /\ coordinator.pc = "start"
  /\ _RUNTIME_STATE' =
       [_RUNTIME_STATE EXCEPT !.dead_link =
          _runtime_update(@, coordinator.job_id,
                          [status_message |-> "Preparing dead-link targets..."])]
  /\ IF _stop_requested(coordinator.job_id)
     THEN /\ coordinator' = Finishing(coordinator, "stopped", "Stopped by user.")
          /\ UNCHANGED dead_link_jobs
     ELSE /\ dead_link_jobs' =
               [dead_link_jobs EXCEPT ![coordinator.job_id] =
                  [DeadLinkJob(@.user_id) EXCEPT !.status = "running"]]
          /\ coordinator' = [coordinator EXCEPT !.pc = "load"]
  /\ UNCHANGED <<folders, bookmarks, events, clients, now, last, device, transactions>>
  /\ UNCHANGED <<import_jobs, _STOP_REQUESTED, importer, stop_request>>

\* The fetches as they are submitted to the executor
Submitted(targets) == [i \in DOMAIN targets |-> [state |-> "queued", outcome |-> NotYet]]

\* The targets, the commit of total_targets and the submission of the fetches;
\* the routine raises if the store does.
RunLoad ==
  /\ coordinator.pc = "load"
  /\ \E raises \in BOOLEAN :
       IF raises
       THEN /\ coordinator' = [Finishing(coordinator, "failed", "database is locked")
                                 EXCEPT !.raised = TRUE]
            /\ UNCHANGED dead_link_jobs
       ELSE IF _load_targets(coordinator.user_id, coordinator.bookmark_ids) = <<>>
       THEN /\ coordinator' = Finishing(coordinator, "done", "No bookmarks need checking.")
            /\ UNCHANGED dead_link_jobs
       ELSE /\ dead_link_jobs' =
                 [dead_link_jobs EXCEPT ![coordinator.job_id].total_targets =
                    Len(_load_targets(coordinator.user_id, coordinator.bookmark_ids))]
            /\ coordinator' =
                 [coordinator EXCEPT
                    !.pc = "loop",
                    !.targets = _load_targets(coordinator.user_id, coordinator.bookmark_ids),
                    !.futures = Submitted(_load_targets(coordinator.user_id,
                                                        coordinator.bookmark_ids))]
  /\ UNCHANGED <<folders, bookmarks, events, clients, now, last, device, transactions>>
  /\ UNCHANGED <<import_jobs, _STOP_REQUESTED, _RUNTIME_STATE, importer, stop_request>>

\* A worker of the pool takes a fetch, and ends it
FetchBegin ==
  /\ coordinator.pc # "none"
  /\ \E i \in DOMAIN coordinator.futures :
       /\ coordinator.futures[i].state = "queued"
       /\ coordinator' = [coordinator EXCEPT !.futures[i].state = "running"]
  /\ UNCHANGED <<folders, bookmarks, events, clients, now, last, device, transactions>>
  /\ UNCHANGED <<dead_link_jobs, import_jobs, _STOP_REQUESTED, _RUNTIME_STATE, importer, stop_request>>

FetchEnd ==
  /\ coordinator.pc # "none"
  /\ \E i \in DOMAIN coordinator.futures, outcome \in Fetches :
       /\ coordinator.futures[i].state = "running"
       /\ coordinator' = [coordinator EXCEPT !.futures[i] = [state |-> "done",
                                                             outcome |-> outcome]]
  /\ UNCHANGED <<folders, bookmarks, events, clients, now, last, device, transactions>>
  /\ UNCHANGED <<dead_link_jobs, import_jobs, _STOP_REQUESTED, _RUNTIME_STATE, importer, stop_request>>

\* The fetches that have completed and that as_completed has not yielded yet
Completed(c) == {i \in DOMAIN c.futures : c.futures[i].state = "done"} \ c.handled

\* for future in as_completed(futures): the next completed fetch, and the one
\* place of the loop where the stop flag is read; after the last one the job
\* is done.
Boundary ==
  /\ coordinator.pc = "loop"
  /\ IF coordinator.handled = DOMAIN coordinator.futures
     THEN coordinator' =
            Finishing(coordinator, "done",
                      IF coordinator.errors # 0 THEN "Finished with request/storage errors."
                      ELSE NoMessage)
     ELSE \E i \in Completed(coordinator) :
            coordinator' = IF _stop_requested(coordinator.job_id)
                           THEN [coordinator EXCEPT !.pc = "cancel", !.stop_job = TRUE]
                           ELSE [coordinator EXCEPT !.pc = "store", !.current = i]
  /\ UNCHANGED <<folders, bookmarks, events, clients, now, last, device, transactions>>
  /\ UNCHANGED <<dead_link_jobs, import_jobs, _STOP_REQUESTED, _RUNTIME_STATE, importer, stop_request>>

\* The body of the loop: the result is stored in the bookmark (an exception
\* there is rolled back and counted), then the counters are persisted (an
\* exception there is the routine's).
Store ==
  /\ coordinator.pc = "store"
  /\ \E raises \in {"no", "store", "persist"} :
       /\ IF raises = "store"
          THEN UNCHANGED <<bookmarks, now>>
          ELSE /\ bookmarks' =
                    [bookmarks EXCEPT ![coordinator.targets[coordinator.current]] =
                       StoredCheck(@, _resolve_future(
                                        coordinator.futures[coordinator.current].outcome),
                                   now + 1)]
               /\ now' = now + 1
       /\ IF raises = "persist"
          THEN /\ coordinator' = [Finishing(coordinator, "failed", "database is locked")
                                    EXCEPT !.raised = TRUE]
               /\ UNCHANGED <<dead_link_jobs, _RUNTIME_STATE>>
          ELSE /\ coordinator' =
                    [Tally(coordinator,
                           IF raises = "store" THEN StoreFailed
                           ELSE _resolve_future(
                                  coordinator.futures[coordinator.current].outcome))
                       EXCEPT !.pc = "loop", !.handled = @ \cup {coordinator.current}]
               /\ dead_link_jobs' =
                    [dead_link_jobs EXCEPT ![coordinator.job_id] =
                       _persist_progress(@, coordinator'.checked, Len(coordinator.targets),
                                         coordinator'.alive, coordinator'.problematic,
                                         coordinator'.errors)]
               /\ _RUNTIME_STATE' =
                    [_RUNTIME_STATE EXCEPT !.dead_link =
                       _runtime_update(@, coordinator.job_id,
                                       [status_message |-> "Checked",
                                        checked |-> coordinator'.checked,
                                        total |-> Len(coordinator.targets)])]
  /\ UNCHANGED <<folders, events, clients, last, device, transactions>>
  /\ UNCHANGED <<import_jobs, _STOP_REQUESTED, importer, stop_request>>

\* finally, with stop_job: the fetches not yet started are cancelled, the
\* executor is shut down without waiting; then the job is finished as stopped.
Cancel ==
  /\ coordinator.pc = "cancel"
  /\ coordinator' =
       [Finishing(coordinator, "stopped", "Stopped by user.")
          EXCEPT !.futures = [i \in DOMAIN @ |->
                                IF @[i].state = "queued"
                                THEN [@[i] EXCEPT !.state = "cancelled"] ELSE @[i]]]
  /\ UNCHANGED <<folders, bookmarks, events, clients, now, last, device, transactions>>
  /\ UNCHANGED <<dead_link_jobs, import_jobs, _STOP_REQUESTED, _RUNTIME_STATE, importer, stop_request>>

\* The commit of _finish_job.  A routine that raised inside the loop has
\* first waited for its fetches (executor.shutdown(wait=True)).
Finish ==
  /\ coordinator.pc = "finish"
  /\ coordinator.raised =>
       \A i \in DOMAIN coordinator.futures : coordinator.futures[i].state = "done"
  /\ dead_link_jobs' =
       [dead_link_jobs EXCEPT ![coordinator.job_id] =
          _finish_job(@, coordinator.status, coordinator.error_message)]
  /\ coordinator' = [coordinator EXCEPT !.pc = "clear"]
  /\ UNCHANGED <<folders, bookmarks, events, clients, now, last, device, transactions>>
  /\ UNCHANGED <<import_jobs, _STOP_REQUESTED, _RUNTIME_STATE, importer, stop_request>>

\* The end of _finish_job: the snapshot, then the stop flag is discarded
Clear ==
  /\ coordinator.pc = "clear"
  /\ _RUNTIME_STATE' =
       [_RUNTIME_STATE EXCEPT !.dead_link =
          _runtime_update(@, coordinator.job_id,
                          [finished |-> TRUE,
                           status_message |->
                             IF coordinator.error_message # NoMessage
                             THEN coordinator.error_message
                             ELSE IF coordinator.status = "done"
                             THEN "Dead-link check complete." ELSE "Check failed."])]
  /\ _STOP_REQUESTED' = _STOP_REQUESTED \ {coordinator.job_id}
  /\ coordinator' = [coordinator EXCEPT !.pc = "ended"]
  /\ UNCHANGED <<folders, bookmarks, events, clients, now, last, device, transactions>>
  /\ UNCHANGED <<dead_link_jobs, import_jobs, importer, stop_request>>

\* A faulty variant: a job can be stopped whatever its status
StoppableWhatever(job_id, user_id) ==
  /\ job_id \in DOMAIN dead_link_jobs
  /\ dead_link_jobs[job_id].user_id = user_id

\* request_dead_link_job_stop goes on past its first return
Stoppable(job_id, user_id) ==
  /\ job_id \in DOMAIN dead_link_jobs
  /\ dead_link_jobs[job_id].user_id = user_id
  /\ dead_link_jobs[job_id].status \in {"pending", "running"}

\* request_dead_link_job_stop, its query: False for a job that is missing,
\* another user's or not pending or running
StopRead ==
  /\ stop_request.pc = "idle"
  /\ stop_request.served < MaxStops
  /\ dead_link_jobs # <<>>
  /\ \E user_id \in Users, job_id \in DOMAIN dead_link_jobs :
       stop_request' = IF Stoppable(job_id, user_id)
                       THEN [stop_request EXCEPT !.pc = "accepted", !.served = @ + 1,
                                                 !.job_id = job_id, !.user_id = user_id]
                       ELSE [stop_request EXCEPT !.served = @ + 1, !.job_id = job_id,
                                                 !.user_id = user_id, !.returned = FALSE]
  /\ UNCHANGED <<folders, bookmarks, events, clients, now, last, device, transactions>>
  /\ UNCHANGED <<dead_link_jobs, import_jobs, _STOP_REQUESTED, _RUNTIME_STATE, coordinator, importer>>

\* request_dead_link_job_stop, the rest: the flag, the snapshot, True
StopWrite ==
  /\ stop_request.pc = "accepted"
  /\ _STOP_REQUESTED' = _STOP_REQUESTED \cup {stop_request.job_id}
  /\ _RUNTIME_STATE' =
       [_RUNTIME_STATE EXCEPT !.dead_link =
          _runtime_update(@, stop_request.job_id,
                          [status_message |-> "Stop requested. Finishing active checks..."])]
  /\ stop_request' = [stop_request EXCEPT !.pc = "idle", !.returned = TRUE,
                                !.accepted = @ \cup {stop_request.job_id}]
  /\ UNCHANGED <<folders, bookmarks, events, clients, now, last, device, transactions>>
  /\ UNCHANGED <<dead_link_jobs, import_jobs, coordinator, importer>>

\* A faulty variant: any job can be deleted
DeletableWhatever(row) == row.status \in Terminal \cup {"pending", "running"}

Deletable(row) == row.status \notin {"pending", "running"}

\* dead_link_job_delete_web: the row and what the process keeps of the job
dead_link_job_delete_web ==
  /\ \E user_id \in Users, job_id \in DOMAIN dead_link_jobs :
       /\ dead_link_jobs[job_id].user_id = user_id
       /\ Deletable(dead_link_jobs[job_id])
       /\ dead_link_jobs' = Drop(dead_link_jobs, job_id)
       /\ _RUNTIME_STATE' = [_RUNTIME_STATE EXCEPT !.dead_link = Drop(@, job_id)]
       /\ _STOP_REQUESTED' = _STOP_REQUESTED \ {job_id}
  /\ UNCHANGED <<folders, bookmarks, events, clients, now, last, device, transactions>>
  /\ UNCHANGED <<import_jobs, coordinator, importer, stop_request>>

\* ------------------------------------------------------------- import jobs
ImportJob(user_id) ==
  [user_id |-> user_id, status |-> "pending", progress |-> 0, total_created |-> 0,
   total_skipped |-> 0, error_message |-> NoMessage]

\* What parse_bookmark_html finds in an uploaded file
ImportedBookmark(url, title, folder_path) ==
  [url |-> url, title |-> title, folder_path |-> folder_path]

ImportedEntries ==
  {ImportedBookmark(UrlA1, "A", <<>>), ImportedBookmark(UrlA2, "", <<"Work">>),
   ImportedBookmark(UrlB1, "", <<>>), ImportedBookmark(EmptyUrl, "A", <<>>)}

_WorkItem(entry, normalized_url, action, bookmark_id) ==
  [entry |-> entry, normalized_url |-> normalized_url, action |-> action,
   bookmark_id |-> bookmark_id]

\* {row.normalized_url: row for row in rows}[normalized]: of the user's rows
\* of one URL the last in rowid order, NoId if there is none
_existing_bookmarks(user_id, normalized) ==
  IF RowsAt(bookmarks, user_id, normalized) = {} THEN NoId
  ELSE Max(RowsAt(bookmarks, user_id, normalized))

Planned(plan, entry, normalized, existing) ==
  IF normalized = EmptyUrl THEN [plan EXCEPT !.skipped = @ + 1]
  ELSE IF existing # NoId /\ bookmarks[existing].deleted_at = NoTime
    THEN [plan EXCEPT !.skipped = @ + 1]
  ELSE [plan EXCEPT !.work_items =
          Append(@, _WorkItem(entry, normalized,
                              IF existing # NoId THEN "restore" ELSE "create", existing))]

RECURSIVE PlanEach(_, _, _)
PlanEach(user_id, entries, plan) ==
  IF entries = <<>> THEN plan
  ELSE PlanEach(user_id, Tail(entries),
                Planned(plan, Head(entries), normalize_url(Head(entries).url),
                        _existing_bookmarks(user_id, normalize_url(Head(entries).url))))

\* The rows are read once, before the loop over the entries.
_plan_work(user_id, entries) == PlanEach(user_id, entries, [work_items |-> <<>>, skipped |-> 0])

_ensure_folder_path(s, user_id, path_parts, cache) ==
  ensure_path([s |-> s, cache |-> cache], user_id, path_parts, NoId)

_create_bookmark(s, user_id, entry, normalized_url, folder_id, extracted) ==
  log_sync_event(
    [s EXCEPT !.bookmarks =
                @ @@ (NextId(@) :>
                        [user_id |-> user_id, url |-> entry.url,
                         normalized_url |-> normalized_url, title |-> entry.title,
                         tags |-> {}, notes |-> Strip(extracted.text), folder_id |-> folder_id,
                         link_status |-> extracted.status, deleted_at |-> NoTime,
                         deleted_by |-> NoId, updated_at |-> s.now + 1]),
              !.loaded = @ \cup {NextId(s.bookmarks)},
              !.now = s.now + 1],
    user_id, "bookmark", NextId(s.bookmarks), "create",
    serialize_bookmark_for_sync(
      NextId(s.bookmarks),
      [user_id |-> user_id, url |-> entry.url, normalized_url |-> normalized_url,
       title |-> entry.title, tags |-> {}, notes |-> Strip(extracted.text),
       folder_id |-> folder_id, link_status |-> extracted.status, deleted_at |-> NoTime,
       deleted_by |-> NoId, updated_at |-> s.now + 1]))

\* What one work item has done: the session and how it counts
Item(s, cache, created, skipped, failed) ==
  [s |-> s, cache |-> cache, created |-> created, skipped |-> skipped, failed |-> failed]

_restore_bookmark(s, cache, user_id, bookmark_id, entry, normalized_url, folder_id, extracted) ==
  IF ~BookmarkOf(s, bookmark_id, user_id)
  THEN Item(_create_bookmark(s, user_id, entry, normalized_url, folder_id, extracted),
            cache, 1, 0, 0)
  ELSE IF s.bookmarks[bookmark_id].deleted_at = NoTime THEN Item(s, cache, 0, 1, 0)
  ELSE Item(StoreBookmark(
              s, user_id, bookmark_id,
              [s.bookmarks[bookmark_id] EXCEPT
                 !.deleted_at = NoTime,
                 !.deleted_by = NoId,
                 !.title = IF @ # NoTitle THEN @ ELSE entry.title,
                 !.folder_id = IF @ # NoId THEN @ ELSE folder_id,
                 !.notes = IF Lower(Strip(@)) \in {"", "none"} THEN Strip(extracted.text)
                           ELSE @,
                 !.link_status = extracted.status],
              "restore", s.now + 1),
            cache, 1, 0, 0)

\* The body of the loop of _run_import_job up to its commit
Stored(user_id, item, extracted, ensured) ==
  IF item.action = "restore" /\ item.bookmark_id # NoId
  THEN _restore_bookmark(ensured.s.s, ensured.s.cache, user_id, item.bookmark_id, item.entry,
                         item.normalized_url, ensured.id, extracted)
  ELSE Item(_create_bookmark(ensured.s.s, user_id, item.entry, item.normalized_url,
                             ensured.id, extracted),
            ensured.s.cache, 1, 0, 0)

Imported(s, user_id, item, cache, extracted) ==
  Stored(user_id, item, extracted,
         _ensure_folder_path(s, user_id, item.entry.folder_path, cache))

_persist_import_progress(row, processed, total, created, skipped) ==
  [row EXCEPT !.progress = Percent(processed, total), !.total_created = created,
              !.total_skipped = skipped]

\* The row as _finish_job of import_jobs.py commits it, from the snapshot
_finish_import_job(row, snapshot, status, error_message) ==
  [row EXCEPT !.status = status,
              !.progress = Percent(Get(snapshot, "processed_items", 0),
                                   Get(snapshot, "total_items", 0)),
              !.total_created = Get(snapshot, "total_created", 0),
              !.total_skipped = Get(snapshot, "total_skipped", 0),
              !.error_message = error_message]

\* The locals of _run_import_job as the thread starts
Importing(job_id, user_id, entries) ==
  [pc |-> "start", job_id |-> job_id, user_id |-> user_id, entries |-> entries,
   work_items |-> <<>>, handled |-> {}, folder_cache |-> <<>>,
   processed |-> 0, created |-> 0, skipped |-> 0, failed |-> 0,
   status |-> "", error_message |-> NoMessage, raised |-> FALSE, seen |-> <<>>]

\* The web route that takes an upload, creates the job and starts its thread
import_bookmarks ==
  /\ importer = NoThread
  /\ coordinator = NoThread
  /\ Serving
  /\ \E entries \in ListsUpTo(ImportedEntries, MaxEntries) :
       /\ import_jobs' = Put(import_jobs, NextId(import_jobs), ImportJob(1))
       /\ importer' = Importing(NextId(import_jobs), 1, entries)
  /\ UNCHANGED <<folders, bookmarks, events, clients, now, last, device, transactions>>
  /\ UNCHANGED <<dead_link_jobs, _STOP_REQUESTED, _RUNTIME_STATE, coordinator, stop_request>>

\* _run_import_job up to the commit of `running`
ImportStart ==
  /\ importer.pc = "start"
  /\ _RUNTIME_STATE' =
       [_RUNTIME_STATE EXCEPT !.import =
          _runtime_update(@, importer.job_id,
                          [status |-> "running", processed_items |-> 0, total_items |-> 0,
                           total_failed |-> 0,
                           status_message |-> "Parsing bookmarks HTML..."])]
  /\ import_jobs' = [import_jobs EXCEPT ![importer.job_id] =
                       [ImportJob(@.user_id) EXCEPT !.status = "running"]]
  /\ importer' = [importer EXCEPT !.pc = "plan"]
  /\ UNCHANGED <<folders, bookmarks, events, clients, now, last, device, transactions>>
  /\ UNCHANGED <<dead_link_jobs, _STOP_REQUESTED, coordinator, stop_request>>

\* The importer after the plan: the skipped entries count as processed, and
\* with no work item left the job is done.
AfterPlan(c, plan) ==
  [c EXCEPT !.pc = IF plan.work_items = <<>> THEN "finish" ELSE "loop",
            !.status = "done",
            !.work_items = plan.work_items,
            !.skipped = plan.skipped,
            !.processed = plan.skipped]

\* The upload is parsed and the work is planned; the entries the plan skips
\* are persisted as progress.
ImportPlan ==
  /\ importer.pc = "plan"
  /\ \E raises \in BOOLEAN :
       IF raises
       THEN /\ importer' = [Finishing(importer, "failed", "parse error")
                              EXCEPT !.raised = TRUE]
            /\ UNCHANGED <<import_jobs, _RUNTIME_STATE>>
       ELSE IF importer.entries = <<>>
       THEN /\ importer' = Finishing(importer, "done", "No bookmarks found in upload.")
            /\ _RUNTIME_STATE' =
                 [_RUNTIME_STATE EXCEPT !.import =
                    _runtime_update(@, importer.job_id, [total_items |-> 0])]
            /\ UNCHANGED import_jobs
       ELSE /\ importer' = AfterPlan(importer, _plan_work(importer.user_id, importer.entries))
            /\ IF importer'.skipped # 0
               THEN /\ import_jobs' =
                         [import_jobs EXCEPT ![importer.job_id] =
                            _persist_import_progress(@, importer'.skipped,
                                                     Len(importer.entries), 0,
                                                     importer'.skipped)]
                    /\ _RUNTIME_STATE' =
                         [_RUNTIME_STATE EXCEPT !.import =
                            _runtime_update(@, importer.job_id,
                                            [processed_items |-> importer'.skipped,
                                             total_items |-> Len(importer.entries),
                                             total_created |-> 0,
                                             total_skipped |-> importer'.skipped,
                                             total_failed |-> 0,
                                             status_message |-> "Skipped duplicates"])]
               ELSE /\ _RUNTIME_STATE' =
                         [_RUNTIME_STATE EXCEPT !.import =
                            _runtime_update(@, importer.job_id,
                                            [total_items |-> Len(importer.entries)])]
                    /\ UNCHANGED import_jobs
  /\ UNCHANGED <<folders, bookmarks, events, clients, now, last, device, transactions>>
  /\ UNCHANGED <<dead_link_jobs, _STOP_REQUESTED, coordinator, stop_request>>

\* `seen` with what became of one more work item
Seen(c, extracted) == [c EXCEPT !.seen = Append(@, extracted)]

\* The importer with one more work item counted
CountedItem(c, i, got) ==
  [c EXCEPT !.processed = @ + 1, !.created = @ + got.created,
            !.skipped = @ + got.skipped, !.failed = @ + got.failed,
            !.handled = @ \cup {i}, !.folder_cache = got.cache,
            !.pc = IF c.handled \cup {i} = DOMAIN c.work_items THEN "finish" ELSE "loop",
            !.error_message = IF c.failed + got.failed # 0
                              THEN "bookmarks failed to import." ELSE NoMessage]

ItemDone(raises, got, counted) ==
  /\ folders' = got.s.folders
  /\ bookmarks' = got.s.bookmarks
  /\ events' = got.s.events
  /\ now' = got.s.now
  /\ IF raises = "persist"
     THEN /\ importer' = [Finishing(counted, "failed", "database is locked")
                            EXCEPT !.raised = TRUE]
          /\ UNCHANGED <<import_jobs, _RUNTIME_STATE>>
     ELSE /\ importer' = counted
          /\ import_jobs' =
               [import_jobs EXCEPT ![counted.job_id] =
                  _persist_import_progress(@, counted.processed, Len(counted.entries),
                                           counted.created, counted.skipped)]
          /\ _RUNTIME_STATE' =
               [_RUNTIME_STATE EXCEPT !.import =
                  _runtime_update(@, counted.job_id,
                                  [processed_items |-> counted.processed,
                                   total_items |-> Len(counted.entries),
                                   total_created |-> counted.created,
                                   total_skipped |-> counted.skipped,
                                   total_failed |-> counted.failed,
                                   status_message |-> "Imported bookmark"])]

\* for future in as_completed(futures): one work item, in any order, with what
\* its fetch found; an exception while it is stored is rolled back and counted
\* as failed, one while the progress is persisted is the routine's.
ImportItem ==
  /\ importer.pc = "loop"
  /\ \E i \in DOMAIN importer.work_items \ importer.handled, outcome \in Fetches,
        raises \in {"no", "store", "persist"} :
       IF raises = "store"
       THEN ItemDone(raises, Item(Session(Db), importer.folder_cache, 0, 0, 1),
                     CountedItem(Seen(importer, StoreFailed), i,
                                 Item(Session(Db), importer.folder_cache, 0, 0, 1)))
       ELSE ItemDone(raises,
                     Imported(Session(Db), importer.user_id, importer.work_items[i],
                              importer.folder_cache, _resolve_future(outcome)),
                     CountedItem(Seen(importer, _resolve_future(outcome)), i,
                                 Imported(Session(Db), importer.user_id,
                                          importer.work_items[i], importer.folder_cache,
                                          _resolve_future(outcome))))
  /\ UNCHANGED <<clients, last, device, transactions>>
  /\ UNCHANGED <<dead_link_jobs, _STOP_REQUESTED, coordinator, stop_request>>

\* _finish_job of import_jobs.py: the commit and the snapshot
ImportFinish ==
  /\ importer.pc = "finish"
  /\ import_jobs' =
       [import_jobs EXCEPT ![importer.job_id] =
          _finish_import_job(@, Get(_RUNTIME_STATE.import, importer.job_id, <<>>),
                             importer.status, importer.error_message)]
  /\ _RUNTIME_STATE' =
       [_RUNTIME_STATE EXCEPT !.import =
          _runtime_update(@, importer.job_id,
                          [status |-> importer.status, finished |-> TRUE,
                           status_message |->
                             IF importer.error_message # NoMessage
                             THEN importer.error_message
                             ELSE IF importer.status = "done"
                             THEN "Import completed." ELSE "Import failed."])]
  /\ importer' = [importer EXCEPT !.pc = "ended"]
  /\ UNCHANGED <<folders, bookmarks, events, clients, now, last, device, transactions>>
  /\ UNCHANGED <<dead_link_jobs, _STOP_REQUESTED, coordinator, stop_request>>

\* ---- the jobs: pushes seed the bookmarks of user 1; then one job runs, the
\* import of an upload or a dead-link check, which is asked to stop and is
\* deleted.
JobSeedOps ==
  {BookmarkOp("create", [url |-> UrlA1]),
   BookmarkOp("create", [url |-> UrlB1, notes |-> "none"]),
   BookmarkOp("delete", [id |-> 1])}

JobSeed ==
  /\ Serving
  /\ coordinator = NoThread
  /\ importer = NoThread
  /\ \E op \in JobSeedOps : sync_push(1, "c1", <<op>>)
  /\ UNCHANGED <<device, jobvars, transactions>>

NextJobs ==
  \/ JobSeed \/ Respond
  \/ import_bookmarks \/ ImportStart \/ ImportPlan \/ ImportItem \/ ImportFinish
  \/ dead_links_recheck \/ RunStart \/ RunLoad \/ FetchBegin \/ FetchEnd
  \/ Boundary \/ Store \/ Cancel \/ Finish \/ Clear
  \/ StopRead \/ StopWrite \/ dead_link_job_delete_web

SpecJobs == Init /\ [][NextJobs]_vars

\* ------------------------------------------------------ claims on the jobs
DeadLinkMoves ==
  {<<"pending", "running">>, <<"pending", "stopped">>, <<"running", "done">>,
   <<"running", "failed">>, <<"running", "stopped">>}

ImportMoves == {<<"pending", "running">>, <<"running", "done">>, <<"running", "failed">>}

\* One step of the rows of a table of jobs: the status moves along `moves`, a
\* row with a terminal status stays as it is, the progress of a running job
\* does not decrease, and every progress is within 0..100.
Moved(before, after, moves) ==
  /\ \A j \in DOMAIN before \cap DOMAIN after :
       /\ after[j].status # before[j].status =>
            <<before[j].status, after[j].status>> \in moves
       /\ before[j].status \in Terminal => after[j] = before[j]
       /\ before[j].status = "running" => after[j].progress >= before[j].progress
  /\ \A j \in DOMAIN after : after[j].progress \in 0..100

ImportEnded ==
  /\ importer.pc = "ended"
  /\ import_jobs[importer.job_id].status = "failed"
  /\ import_jobs[importer.job_id].progress = 50

StoppedBeforeStart ==
  /\ coordinator.pc = "ended"
  /\ coordinator.job_id \in DOMAIN dead_link_jobs
  /\ dead_link_jobs[coordinator.job_id].status = "stopped"
  /\ coordinator.futures = <<>>

\* ---------------------------------------------------------------------- C23
\* The step in which request_dead_link_job_stop answers
StopServed == stop_request.pc = "idle" /\ stop_request'.served = stop_request.served + 1

\* C23: a stop request on a dead-link job that is done, failed or stopped, or
\* that is another user's, returns False, adds nothing to _STOP_REQUESTED and
\* changes neither a job row nor a snapshot; and a step that removes a job row
\* removes a row whose status is done, failed or stopped.
C23_StopRefused ==
  [][/\ ( /\ StopServed
          /\ \/ dead_link_jobs[stop_request'.job_id].status \in Terminal
             \/ dead_link_jobs[stop_request'.job_id].user_id # stop_request'.user_id )
        => /\ stop_request'.pc = "idle"
           /\ stop_request'.returned = FALSE
           /\ stop_request'.accepted = stop_request.accepted
           /\ UNCHANGED <<_STOP_REQUESTED, dead_link_jobs, _RUNTIME_STATE>>
     /\ \A job_id \in DOMAIN dead_link_jobs \ DOMAIN dead_link_jobs' :
          dead_link_jobs[job_id].status \in Terminal]_vars

\* The owner's stop request on a finished job has been refused
C23_Witness ==
  /\ stop_request.pc = "idle"
  /\ stop_request.served > 0
  /\ stop_request.returned = FALSE
  /\ stop_request.job_id \in DOMAIN dead_link_jobs
  /\ dead_link_jobs[stop_request.job_id].user_id = stop_request.user_id
  /\ dead_link_jobs[stop_request.job_id].status \in Terminal
  /\ stop_request.job_id \notin stop_request.accepted
  /\ stop_request.job_id \notin _STOP_REQUESTED

\* Another user's stop request has been refused while the job runs
RefusedOther ==
  /\ stop_request.pc = "idle"
  /\ stop_request.served > 0
  /\ stop_request.job_id \in DOMAIN dead_link_jobs
  /\ dead_link_jobs[stop_request.job_id].user_id # stop_request.user_id
  /\ dead_link_jobs[stop_request.job_id].status = "running"

\* A finished job has been deleted
DeletedJob == coordinator.pc = "ended" /\ coordinator.job_id \notin DOMAIN dead_link_jobs

\* ---------------------------------------------------------------------- C24
\* The coordinator leaves the loop
LeavesLoop == coordinator.pc = "loop" /\ coordinator'.pc # "loop"

\* The job of the coordinator has its last commit behind it
Ended(c) == c.pc \in {"clear", "ended"} /\ c.job_id \in DOMAIN dead_link_jobs

StoppedInFlight ==
  /\ Ended(coordinator)
  /\ dead_link_jobs[coordinator.job_id].status = "stopped"
  /\ \E i \in DOMAIN coordinator.futures : coordinator.futures[i].state = "running"

\* The flag is set while a result is being handled: the result is stored
SetWhileStoring ==
  /\ coordinator.pc = "store"
  /\ _stop_requested(coordinator.job_id)

\* ---------------------------------------------------------------------- C27
\* C27: a dead-link job for which request_dead_link_job_stop has returned True
\* does not end as done: once its last commit is made its status is stopped;
\* and once the job has ended its id is not in _STOP_REQUESTED.
C27_StopHonoured ==
  /\ Ended(coordinator) /\ coordinator.job_id \in stop_request.accepted
       => dead_link_jobs[coordinator.job_id].status = "stopped"
  /\ coordinator.pc = "ended" => ~_stop_requested(coordinator.job_id)

\* The stop is accepted while the last result is handled: the loop is left
\* without another look at the flag and the job will be done
AcceptedThenDone ==
  /\ coordinator.pc = "loop"
  /\ coordinator.futures # <<>>
  /\ coordinator.handled = DOMAIN coordinator.futures
  /\ coordinator.job_id \in stop_request.accepted
  /\ _stop_requested(coordinator.job_id)

\* The flag of a job that has ended stays behind
FlagLeftBehind ==
  /\ coordinator.pc = "ended"
  /\ coordinator.job_id \in DOMAIN dead_link_jobs
  /\ dead_link_jobs[coordinator.job_id].status = "done"
  /\ _stop_requested(coordinator.job_id)

\* ---------------------------------------------------------------------- C25
\* The results among `seen` that are failures: the fetch raised or returned an
\* error, or storing the result raised
Failures(seen) == Cardinality({i \in DOMAIN seen : seen[i].error # NoError})

ImportOver == importer.pc = "ended" /\ importer.job_id \in DOMAIN import_jobs

\* A failure of one item neither aborts a job nor makes it failed: a job ends
\* as failed only if its routine raised, and a job whose routine did not
\* raise and that was not stopped is done with all its items handled.
ItemFailuresLocal ==
  /\ Ended(coordinator) =>
       /\ dead_link_jobs[coordinator.job_id].status = "failed" <=> coordinator.raised
       /\ dead_link_jobs[coordinator.job_id].total_errors = Failures(coordinator.seen)
       /\ dead_link_jobs[coordinator.job_id].total_checked = Len(coordinator.seen)
       /\ dead_link_jobs[coordinator.job_id].status = "done" =>
            /\ dead_link_jobs[coordinator.job_id].progress = 100
            /\ coordinator.handled = DOMAIN coordinator.targets
            /\ dead_link_jobs[coordinator.job_id].total_checked =
                 dead_link_jobs[coordinator.job_id].total_targets
  /\ ImportOver =>
       /\ import_jobs[importer.job_id].status = "failed" <=> importer.raised
       /\ import_jobs[importer.job_id].status = "done" =>
            /\ import_jobs[importer.job_id].progress = 100
            /\ importer.handled = DOMAIN importer.work_items
            /\ importer.processed = Len(importer.entries)

\* C25: a failure of one item (its fetch raises or returns an error, or
\* storing its result raises) does not abort an import or a dead-link job and
\* does not make it failed: the job counts the item in its error or failed
\* counter, goes on with the other items and, unless it is stopped or its
\* routine raises, ends as done with every item processed and progress 100.
C25_ItemFailures ==
  /\ ItemFailuresLocal
  /\ ImportOver =>
       Get(Get(_RUNTIME_STATE.import, importer.job_id, <<>>), "total_failed", 0)
         = Failures(importer.seen)

\* A dead-link job is done after a fetch that raised and a store that raised
BothFailuresCounted ==
  /\ Ended(coordinator)
  /\ dead_link_jobs[coordinator.job_id].status = "done"
  /\ dead_link_jobs[coordinator.job_id].total_errors = 2
  /\ \E i \in DOMAIN coordinator.futures : coordinator.futures[i].outcome.raised
  /\ StoreFailed \in Range(coordinator.seen)

\* An import is done after a store that raised
ImportStoreFailed ==
  /\ ImportOver
  /\ import_jobs[importer.job_id].status = "done"
  /\ importer.failed = 1
  /\ importer.created = 1

\* ======================================================= concurrent requests
\* Requests served at once by several threads, each with its own session.
\* sync_push writes inside one transaction: the INSERTs and UPDATEs of its
\* operations are flushed, which is when an event is given its id, and the
\* commit makes them visible.  The store of the configuration is SQLite
\* (config.py: SQLALCHEMY_DATABASE_URI), which lets one connection write at a
\* time: the first write of a transaction takes the lock of the database file
\* and the commit releases it; a write of another connection waits or fails
\* with "database is locked".  sync_pull only reads, and reads what is
\* committed.

\* A faulty variant: a store that lets transactions write side by side
WriteLockIgnored(w) == w \in Writers

\* No other thread has a write transaction open
WriteLockFree(w) == \A other \in Writers \ {w} : transactions[other] = NoTransaction

\* sync_push up to its commit: the client row, then the operations flushed in
\* the session of thread w
PushFlush ==
  /\ \E w \in Writers, u \in Users, ops \in ListsUpTo(ProtocolOps, 1) :
       /\ transactions[w] = NoTransaction
       /\ WriteLockFree(w)
       /\ clients' = ensure_sync_client(clients, u, "c1")
       /\ transactions' =
            [transactions EXCEPT ![w] =
               [pc |-> "flushed", user |-> u, operations |-> ops,
                done |-> ApplyOperations(Session(Db), u, ops, <<>>)]]
  /\ UNCHANGED <<folders, bookmarks, events, now, last, device, jobvars>>

\* The commit of sync_push, the cursor and the response
PushCommitted ==
  /\ \E w \in Writers :
       /\ transactions[w] # NoTransaction
       /\ PushCommit(transactions[w].user, "c1", transactions[w].operations, clients,
                     transactions[w].done.s, transactions[w].done.results,
                     LatestCursor(transactions[w].done.s.events, transactions[w].user))
       /\ transactions' = [transactions EXCEPT ![w] = NoTransaction]
  /\ UNCHANGED <<device, jobvars>>

\* A device of user 1 pulls from the cursor of its last pull and keeps the
\* events it is given
DevicePull ==
  /\ \E limit \in 1..MaxLimit : sync_pull(1, device.cursor, limit)
  /\ device' = [device EXCEPT !.cursor = last'.cursor, !.data = @ \o last'.events]
  /\ UNCHANGED <<jobvars, transactions>>

NextConcurrent == PushFlush \/ PushCommitted \/ DevicePull

SpecConcurrent == Init /\ [][NextConcurrent]_vars

\* ---------------------------------------------------------------------- C26
\* The events of a user up to a cursor, in the order of their ids
UpTo(log, user, cursor) == SelectSeq(log, LAMBDA e : e.user_id = user /\ e.id <= cursor)

\* C26: a device that pulls from the cursor of its previous pull has received,
\* once each and in order, exactly the events of its user with an id up to its
\* cursor, also while pushes of the same user and of others are flushed and
\* committed between its pulls; an event that becomes visible has an id above
\* every cursor the device was given.
C26_ExactlyOnce ==
  [][/\ (device.data = UpTo(events, 1, device.cursor))'
     /\ \A i \in DOMAIN events' :
          i \notin DOMAIN events \/ events'[i] # events[i] => i > device.cursor]_vars

\* The device has pulled all there is while a push of its user, flushed with
\* the next id, is not yet committed
C26_Witness ==
  /\ device.cursor > 0
  /\ device.cursor = Len(events)
  /\ device.data = UpTo(events, 1, device.cursor)
  /\ \E w \in Writers :
       /\ transactions[w] # NoTransaction
       /\ transactions[w].user = 1
       /\ Len(transactions[w].done.s.events) > device.cursor

\* The device has received the events of two pushes in two pulls
PulledTwice ==
  /\ Len(device.data) = 2
  /\ device.cursor = 3
  /\ Len(events) = 3

=============================================================================
